---- MODULE Spec2Model ----
(***************************************************************************)
(* State-machine model of the IntelliQuery agent workflows.                *)
(*                                                                         *)
(*   Spec    the text-to-SQL workflow: QueryOrchestrator.run / SQLAgent.run *)
(*           driving generate_sql -> (reflection_node ->) execute_sql with *)
(*           the retry and reflection edges, and the output formatting.    *)
(*   SpecBI  the BIOrchestrator ReAct loop: think -> execute_tool with the *)
(*           should_continue edge, under the graph recursion limit.        *)
(*   SpecVis the VisualizationAgent: run() and its think -> execute_tool   *)
(*           loop.                                                         *)
(*   SpecRuns consecutive run() calls on one of the three objects.         *)
(*   SpecCtx build_context with its cache, on a database whose schema      *)
(*           changes.                                                      *)
(*   SpecFacade IntelliQuery._get_or_build_context, the memo of the facade.*)
(*   SpecSynth _synthesize_augmented_schema on generated DDL texts.        *)
(*   SpecFetch DatabaseService.fetch_distinct_values.                      *)
(*   SpecValidate DatabaseService.validate_sql.                            *)
(*   SpecCache the two cache providers under set() and get().              *)
(*   SpecCacheFiles FileSystemCacheProvider.get on a directory as found.   *)
(*   SpecEdges the conditional edges of the SQL workflow graph.            *)
(*   SpecTool the tool node of the BI graph, entered in mid-turn.          *)
(*   SpecRestart build_context in successive processes sharing a cache.    *)
(*   SpecSampled _synthesize_augmented_schema on lists of sampled values.  *)
(*                                                                         *)
(* Texts that are scanned (DDL, SQL, JSON) are sequences of characters.    *)
(*                                                                         *)
(* Python strings are sequences of chunks (TLA+ strings); " " is the       *)
(* whitespace chunk, so that str.strip() and truthiness are computed.      *)
(* None is a sequence holding one reserved chunk that no string contains.  *)
(***************************************************************************)
EXTENDS Integers, Sequences, FiniteSets, TLC

\* ------------------------------------------------------------------------
\* Bounds of the exploration
\* ------------------------------------------------------------------------

\* largest max_attempts a QueryOrchestrator / SQLAgent is constructed with
MaxAttemptsCfg == 2

\* largest max_reflection_attempts a QueryOrchestrator is constructed with
MaxReflectionCfg == 2

\* ------------------------------------------------------------------------
\* Python values
\* ------------------------------------------------------------------------

None == <<"<None>">>

\* bool(s) of an Optional[str]
Truthy(s) == s # None /\ s # <<>>

\* a text is the sequence of its pieces; where the code looks inside a text
\* (a schema DDL, an SQL statement) the pieces are its characters
LowerLetters ==
    <<"a", "b", "c", "d", "e", "f", "g", "h", "i", "j", "k", "l", "m",
      "n", "o", "p", "q", "r", "s", "t", "u", "v", "w", "x", "y", "z">>

UpperLetters ==
    <<"A", "B", "C", "D", "E", "F", "G", "H", "I", "J", "K", "L", "M",
      "N", "O", "P", "Q", "R", "S", "T", "U", "V", "W", "X", "Y", "Z">>

Digits == {"0", "1", "2", "3", "4", "5", "6", "7", "8", "9"}

Letters ==
    {LowerLetters[i] : i \in DOMAIN LowerLetters} \cup
    {UpperLetters[i] : i \in DOMAIN UpperLetters}

IsLetter(c) == c \in Letters

\* the upper case of every lower case letter
UpperOf ==
    [c \in {LowerLetters[i] : i \in DOMAIN LowerLetters} |->
        UpperLetters[CHOOSE i \in DOMAIN LowerLetters : LowerLetters[i] = c]]

\* str.upper(), character by character
UpperChar(c) == IF c \in DOMAIN UpperOf THEN UpperOf[c] ELSE c

\* \s of a regular expression, and what strip() removes
IsSpace(c) == c \in {" ", "\t", "\n"}

\* \w of a regular expression
IsWordChar(c) == IsLetter(c) \/ c \in Digits \/ c = "_"

RECURSIVE LStrip(_)
LStrip(s) == IF s # <<>> /\ IsSpace(Head(s)) THEN LStrip(Tail(s)) ELSE s

RECURSIVE RStrip(_)
RStrip(s) ==
    IF s # <<>> /\ IsSpace(s[Len(s)])
    THEN RStrip(SubSeq(s, 1, Len(s) - 1)) ELSE s

\* str.strip()
Strip(s) == RStrip(LStrip(s))

\* "\n".join(lines)
RECURSIVE Join(_)
Join(lines) ==
    IF lines = <<>> THEN <<>>
    ELSE IF Len(lines) = 1 THEN lines[1]
    ELSE lines[1] \o <<"\n">> \o Join(Tail(lines))

\* text.split("\n")
RECURSIVE Split(_)
Split(text) ==
    LET breaks == {i \in DOMAIN text : text[i] = "\n"}
        first == CHOOSE i \in breaks : \A j \in breaks : i <= j
    IN  IF breaks = {} THEN <<text>>
        ELSE <<SubSeq(text, 1, first - 1)>> \o
             Split(SubSeq(text, first + 1, Len(text)))

\* the last position of the longest run of spaces, of word characters, of
\* characters other than q, that starts at position i of a text; i - 1 when
\* there is no such character at i
RECURSIVE SpacesEnd(_, _)
SpacesEnd(text, i) ==
    IF i <= Len(text) /\ IsSpace(text[i]) THEN SpacesEnd(text, i + 1)
    ELSE i - 1

RECURSIVE WordEnd(_, _)
WordEnd(text, i) ==
    IF i <= Len(text) /\ IsWordChar(text[i]) THEN WordEnd(text, i + 1)
    ELSE i - 1

RECURSIVE UntilEnd(_, _, _)
UntilEnd(text, i, q) ==
    IF i <= Len(text) /\ text[i] # q THEN UntilEnd(text, i + 1, q)
    ELSE i - 1

\* text.startswith(prefix, i), ignoring case (prefix is in upper case)
StartsWithAt(text, i, prefix) ==
    /\ i + Len(prefix) - 1 <= Len(text)
    /\ \A k \in DOMAIN prefix : UpperChar(text[i + k - 1]) = prefix[k]

\* ------------------------------------------------------------------------
\* The collaborators' answers (LLM, reviewer LLM, database)
\* ------------------------------------------------------------------------

Queries == {None, <<>>, <<"SELECT a">>, <<" ", "SELECT b", " ">>}

Reasons == {None, <<"because">>}

Clarifications == {None, <<"which column?">>}

\* LLM_SQLResponse: what generate_structured returns to generate_sql_node.
\* A success comes without a query, with an empty one, with a query and a
\* reason, or with a query to strip; a clarification with or without its
\* question; an error with or without a reason
LLM_SQLResponse ==
    {[status |-> "success", query |-> q, reason |-> None,
      clarification_question |-> None] : q \in Queries \ {<<"SELECT a">>}}
    \cup
    {[status |-> "success", query |-> <<"SELECT a">>, reason |-> <<"because">>,
      clarification_question |-> None]}
    \cup
    [status : {"clarification"}, query : {None}, reason : {None},
     clarification_question : Clarifications]
    \cup
    [status : {"error"}, query : {None}, reason : Reasons,
     clarification_question : {None}]

\* generation_result before the first generate_sql_node
NoGeneration ==
    [status |-> "<None>", query |-> None, reason |-> None,
     clarification_question |-> None]

\* ReflectionReview: what generate_structured returns to reflection_node
ReflectionReview ==
    [decision : {"proceed", "revise"}, suggestions : {None, <<"use a JOIN">>}]
    \cup {[decision |-> "revise", suggestions |-> <<>>]}

\* pandas DataFrames: the sequence of rows (<<>> is the empty DataFrame)
DataFrames == {<<>>, <<"row1", "row2">>}

\* str(e) of the RuntimeError / ValueError raised by execute_for_dataframe
ExecErrors ==
    {<<"Database execution failed: ", "no such column">>,
     <<"Database execution failed: ", "syntax error">>}

\* what one call of execute_for_dataframe does: return a DataFrame, raise the
\* RuntimeError it documents, or let another exception of the driver through
ExecOutcomes ==
    [kind : {"ok"}, dataframe : DataFrames, message : {None}]
    \cup [kind : {"RuntimeError"}, dataframe : {None}, message : ExecErrors]
    \cup [kind : {"OtherException"}, dataframe : {None}, message : {None}]

\* str(e) of the ValueError raised by validate_sql
ValidationErrors ==
    {<<"The SQL query is empty or invalid.">>,
     <<"SQL Validation Error: ", "no such table">>}

\* what validate_sql(sql) can do: sqlparse.parse(None) raises TypeError, an
\* input without a statement raises ValueError, anything else is either
\* rejected with ValueError (not a SELECT, EXPLAIN failed) or accepted
ValidateOutcomes(sql) ==
    IF sql = None THEN {[kind |-> "TypeError", message |-> None]}
    ELSE IF sql = <<>>
    THEN {[kind |-> "ValueError",
           message |-> <<"The SQL query is empty or invalid.">>]}
    ELSE {[kind |-> "ok", message |-> None]}
         \cup [kind : {"ValueError"}, message : ValidationErrors]

\* ------------------------------------------------------------------------
\* State of the SQL workflow
\* ------------------------------------------------------------------------

\* the implementations of the run in the repository:
\*   "agent"             SQLAgent (agent.py): generate -> execute, own run()
\*   "simple"            QueryOrchestrator with SimpleWorkflow
\*   "reflection_legacy" QueryOrchestrator with workflows/reflection.py
\*   "reflection"        QueryOrchestrator with workflows/sql_agent/reflection.py
Variants == {"agent", "simple", "reflection_legacy", "reflection"}

IsReflection(v) == v \in {"reflection_legacy", "reflection"}

VARIABLES
    variant,         \* which implementation was constructed
    cfg,             \* constructor arguments: max_attempts, max_reflection_attempts
    auto_execute,    \* argument of the current run()
    pc,              \* the node of the graph the run is at
    state,           \* SQLAgentState, the dictionary threaded through the nodes
    calls,           \* the calls made on the LLM and the database in this run
    result,          \* the SQLPlan / SQLResult returned by run()
    biPc,            \* BIOrchestrator: the node the turn is at
    biState,         \* BIAgentState
    biSteps,         \* node executions of the graph in this turn
    biCalls,         \* sub-agent calls made in this turn
    biResult,        \* the BIResult returned by BIOrchestrator.run()
    visPc,           \* VisualizationAgent: where its run() is
    visState,        \* VisAgentState
    visCalls,        \* the run() under way and the LLM calls made in it
    visResult,       \* the VisualizationResult returned by run()
    rerun,           \* the run() under way is not the first one on its object
    ctxLlm,          \* DBContextAnalyzer: is an llm_interface configured
    ctxSchema,       \* the DDL of the database, as get_table_info() gives it
    ctxCache,        \* the content of the cache provider: key -> string
    ctxLog,          \* the last two build_context calls, the latest last
    facContext,      \* IntelliQuery._enriched_context
    facLastBc,       \* IntelliQuery._last_business_context
    callArgs,        \* the arguments of a call of a function checked alone
    callResult,      \* what that call returned or raised
    cacheMem,        \* InMemoryCacheProvider._cache
    cacheFiles,      \* the files of FileSystemCacheProvider.cache_dir
    cacheLast        \* the value of the last set() of every key

sqlVars == <<variant, cfg, auto_execute, pc, state, calls, result>>
biVars == <<biPc, biState, biSteps, biCalls, biResult>>
visVars == <<visPc, visState, visCalls, visResult>>
vars == <<variant, cfg, auto_execute, pc, state, calls, result,
          biPc, biState, biSteps, biCalls, biResult,
          visPc, visState, visCalls, visResult, rerun,
          ctxLlm, ctxSchema, ctxCache, ctxLog, facContext, facLastBc,
          callArgs, callResult, cacheMem, cacheFiles, cacheLast>>
fnVars == <<callArgs, callResult>>
cacheVars == <<cacheMem, cacheFiles, cacheLast>>
ctxVars == <<ctxLlm, ctxSchema, ctxCache, ctxLog, facContext, facLastBc>>

\* what the nodes of one object leave alone: the other objects, and which
\* run() is under way
notSql == <<biVars, visVars, rerun, ctxVars, fnVars, cacheVars>>
notBI == <<sqlVars, visVars, rerun, ctxVars, fnVars, cacheVars>>
notVis == <<sqlVars, biVars, rerun, ctxVars, fnVars, cacheVars>>
notCtx == <<sqlVars, biVars, visVars, rerun, fnVars, cacheVars>>
notFn == <<sqlVars, biVars, visVars, rerun, ctxVars, cacheVars>>
notCache == <<sqlVars, biVars, visVars, rerun, ctxVars, fnVars>>

NoResult ==
    [kind |-> "<None>", status |-> "<None>", dataframe |-> None,
     sql_query |-> None, reasoning |-> None, is_validated |-> FALSE,
     clarification_question |-> None, error_message |-> None]

\* SQLResult(...) with the pydantic defaults of the fields not passed
SQLResult(status) ==
    [NoResult EXCEPT !.kind = "SQLResult", !.status = status]

\* SQLPlan(...) with the pydantic defaults of the fields not passed
SQLPlan(status) ==
    [NoResult EXCEPT !.kind = "SQLPlan", !.status = status]

\* QueryOrchestrator._prepare_initial_state / the initial_state of SQLAgent.run
PrepareInitialState(auto) ==
    [history |-> <<>>,
     max_attempts |-> IF auto THEN cfg.max_attempts ELSE 1,
     current_attempt |-> 0,
     generation_result |-> NoGeneration,
     max_reflection_attempts |-> cfg.max_reflection_attempts,
     current_reflection_attempt |-> 0,
     review |-> None,
     final_dataframe |-> None,
     generated_sql |-> <<>>,
     error |-> None]

\* the state before any run (nothing of it is read: run() builds its own)
IdleState == [history |-> <<>>, max_attempts |-> 0, current_attempt |-> 0,
     generation_result |-> NoGeneration, max_reflection_attempts |-> 0,
     current_reflection_attempt |-> 0, review |-> None,
     final_dataframe |-> None, generated_sql |-> <<>>, error |-> None]

Call(op, arg, out, detail) ==
    [op |-> op, arg |-> arg, out |-> out, detail |-> detail]

\* ------------------------------------------------------------------------
\* Nodes of the SQL workflow graph (state -> updated state)
\* ------------------------------------------------------------------------

\* BaseWorkflow._create_history_entry
CreateHistoryEntry(attempt, response) ==
    <<"ATTEMPT ", ToString(attempt), " - Status: ", response.status>>
    \o (IF Truthy(response.query)
        THEN <<"\nSQL:\n">> \o response.query ELSE <<>>)
    \o (IF Truthy(response.reason)
        THEN <<"\nReason:\n">> \o response.reason ELSE <<>>)

\* BaseWorkflow._prepare_generation_prompt_variables: the "history" variable
PromptHistory(s) ==
    Join(IF Truthy(s.review)
         THEN Append(s.history, <<"REVIEWER SUGGESTIONS:\n">> \o s.review)
         ELSE s.history)

\* generate_sql_node that leaves the pending review in the state
GenerateSqlNode_KeepsReview(s, response) ==
    [s EXCEPT !.generation_result = response,
              !.current_attempt = s.current_attempt + 1,
              !.history = Append(s.history,
                     CreateHistoryEntry(s.current_attempt + 1, response))]

\* BaseWorkflow.generate_sql_node
GenerateSqlNode(s, response) ==
    [s EXCEPT !.generation_result = response,
              !.current_attempt = s.current_attempt + 1,
              !.history = Append(s.history,
                     CreateHistoryEntry(s.current_attempt + 1, response)),
              !.review = None]

\* ReflectionWorkflow.reflection_node: workflows/reflection.py stores the
\* suggestions whatever the decision, workflows/sql_agent/reflection.py only
\* those of a "revise" decision
ReflectionNode(v, s, review) ==
    [s EXCEPT !.review = IF v = "reflection_legacy" THEN review.suggestions
                         ELSE IF review.decision = "revise"
                              THEN review.suggestions ELSE None,
              !.current_reflection_attempt = s.current_reflection_attempt + 1]

\* ReflectionWorkflow.should_reflect_node
ShouldReflectNode(s) ==
    IF s.generation_result.status = "success" THEN "reflect" ELSE "execute"

\* decide_after_reflection_node that regenerates as long as a suggestion is
\* pending, whatever the number of reviews made
DecideAfterReflectionNode_NoCap(s) ==
    IF s.review = None THEN "execute" ELSE "regenerate"

\* ReflectionWorkflow.decide_after_reflection_node
DecideAfterReflectionNode(s) ==
    IF s.review = None THEN "execute"
    ELSE IF s.current_reflection_attempt >= s.max_reflection_attempts
         THEN "execute"
         ELSE "regenerate"

\* execute_sql_node that does not clear the stored error on success
ExecuteSqlNode_KeepsError(s, outcome) ==
    IF outcome.kind = "ok"
    THEN [s EXCEPT !.final_dataframe = outcome.dataframe,
                   !.generated_sql = Strip(s.generation_result.query)]
    ELSE [s EXCEPT !.error = <<"Error executing SQL: ">> \o outcome.message,
                   !.final_dataframe = None,
                   !.history = Append(s.history,
                       <<"EXECUTION FAILED: ">> \o <<"Error executing SQL: ">>
                       \o outcome.message)]

\* execute_sql_node that starts the history log again at a failure
ExecuteSqlNode_DropsLog(s, outcome) ==
    IF outcome.kind = "ok"
    THEN [s EXCEPT !.final_dataframe = outcome.dataframe,
                   !.generated_sql = Strip(s.generation_result.query),
                   !.error = None]
    ELSE [s EXCEPT !.error = <<"Error executing SQL: ">> \o outcome.message,
                   !.final_dataframe = None,
                   !.history =
                       <<<<"EXECUTION FAILED: ">> \o <<"Error executing SQL: ">>
                         \o outcome.message>>]

\* BaseWorkflow.execute_sql_node, once execute_for_dataframe answered
ExecuteSqlNode(s, outcome) ==
    IF outcome.kind = "ok"
    THEN [s EXCEPT !.final_dataframe = outcome.dataframe,
                   !.generated_sql = Strip(s.generation_result.query),
                   !.error = None]
    ELSE [s EXCEPT !.error = <<"Error executing SQL: ">> \o outcome.message,
                   !.final_dataframe = None,
                   !.history = Append(s.history,
                       <<"EXECUTION FAILED: ">> \o <<"Error executing SQL: ">>
                       \o outcome.message)]

\* should_retry_node comparing the attempt counter with > instead of >=
ShouldRetryNode_OffByOne(s) ==
    IF s.generation_result.status # "success" THEN "end"
    ELSE IF s.error = None THEN "end"
    ELSE IF s.current_attempt > s.max_attempts THEN "end"
    ELSE "retry"

\* should_retry_node that does not look at the status of the generation
ShouldRetryNode_IgnoresStatus(s) ==
    IF s.error = None THEN "end"
    ELSE IF s.current_attempt >= s.max_attempts THEN "end"
    ELSE "retry"

\* BaseWorkflow.should_retry_node
ShouldRetryNode(s) ==
    IF s.generation_result.status # "success" THEN "end"
    ELSE IF s.error = None THEN "end"
    ELSE IF s.current_attempt >= s.max_attempts THEN "end"
    ELSE "retry"

\* the node that follows generate_sql in the graph of the variant; in plan-only
\* mode SQLAgent.run (agent.py) invokes the generate_sql node alone
AfterGenerate(v, auto, s) ==
    IF v = "agent"
    THEN (IF auto THEN "execute_sql" ELSE "format_output")
    ELSE IF IsReflection(v)
         THEN (IF ShouldReflectNode(s) = "reflect"
               THEN "reflection_node" ELSE "execute_sql")
         ELSE "execute_sql"

\* ------------------------------------------------------------------------
\* Output formatting
\* ------------------------------------------------------------------------

\* does the formatting reach its validate_sql call
\* (QueryOrchestrator._format_output / the plan-only branch of SQLAgent.run)
CallsValidate(auto, s) ==
    /\ ~auto
    /\ s.generation_result.status = "success"

\* the SQLPlan built around the validate_sql call
PlanOutput(v, s, vo) ==
    IF vo.kind = "ok"
    THEN [SQLPlan("success") EXCEPT
              !.sql_query = s.generation_result.query,
              !.reasoning = s.generation_result.reason,
              !.is_validated = TRUE]
    ELSE [SQLPlan("error") EXCEPT
              !.sql_query = s.generation_result.query,
              !.reasoning = IF v = "agent"
                  THEN <<"The generated SQL was syntactically invalid.">>
                  ELSE None,
              !.error_message = vo.message,
              !.is_validated = FALSE]

\* _format_output looking at the stored execution error before the status of
\* the generation
FormatOutput_ErrorFirst(auto, s) ==
    LET gen == s.generation_result
        Model(status) == IF auto THEN SQLResult(status) ELSE SQLPlan(status)
    IN  IF auto /\ Truthy(s.error)
        THEN [SQLResult("error") EXCEPT
                  !.error_message =
                      <<"SQL execution failed after ",
                        ToString(s.current_attempt), " attempts: ">>
                      \o s.error,
                  !.sql_query = gen.query,
                  !.reasoning = gen.reason]
        ELSE IF gen.status = "clarification"
        THEN [Model("clarification_needed") EXCEPT
                  !.clarification_question = gen.clarification_question]
        ELSE IF gen.status = "error"
        THEN [Model("error") EXCEPT !.error_message = gen.reason]
        ELSE [SQLResult("success") EXCEPT
                  !.dataframe = s.final_dataframe,
                  !.sql_query = s.generated_sql,
                  !.reasoning = gen.reason]

\* QueryOrchestrator._format_output, the branches without validate_sql
FormatOutput(auto, s) ==
    LET gen == s.generation_result
        Model(status) == IF auto THEN SQLResult(status) ELSE SQLPlan(status)
    IN  IF gen.status = "clarification"
        THEN [Model("clarification_needed") EXCEPT
                  !.clarification_question = gen.clarification_question]
        ELSE IF gen.status = "error"
        THEN [Model("error") EXCEPT !.error_message = gen.reason]
        ELSE IF auto /\ Truthy(s.error)
        THEN [SQLResult("error") EXCEPT
                  !.error_message =
                      <<"SQL execution failed after ",
                        ToString(s.current_attempt), " attempts: ">>
                      \o s.error,
                  !.sql_query = gen.query,
                  !.reasoning = gen.reason]
        ELSE [SQLResult("success") EXCEPT
                  !.dataframe = s.final_dataframe,
                  !.sql_query = s.generated_sql,
                  !.reasoning = gen.reason]

\* SQLAgent.run (agent.py), the branches without validate_sql
AgentFormatOutput(auto, s) ==
    LET gen == s.generation_result
        Model(status) == IF auto THEN SQLResult(status) ELSE SQLPlan(status)
    IN  IF gen.status = "clarification"
        THEN [Model("clarification_needed") EXCEPT
                  !.clarification_question = gen.clarification_question]
        ELSE IF auto /\ Truthy(s.error)
        THEN [SQLResult("error") EXCEPT
                  !.error_message =
                      <<"SQL execution failed after ",
                        ToString(cfg.max_attempts), " attempts: ">>
                      \o s.error,
                  !.sql_query = gen.query]
        ELSE IF gen.status = "error"
        THEN [Model("error") EXCEPT !.error_message = gen.reason]
        ELSE [SQLResult("success") EXCEPT
                  !.dataframe = s.final_dataframe,
                  !.sql_query = s.generated_sql]

\* ------------------------------------------------------------------------
\* The run of the SQL workflow, one action per step
\* ------------------------------------------------------------------------

Configs ==
    [max_attempts : 1..MaxAttemptsCfg,
     max_reflection_attempts : 0..MaxReflectionCfg]

\* BIResult before BIOrchestrator.run returned
NoBIResult ==
    [status |-> "<None>", final_answer |-> None, dataframe |-> None,
     visualization |-> None, sql_query |-> None, reasoning |-> None,
     visualization_params |-> None, error_message |-> None]

\* visualization_result = None
NoVisualization ==
    [status |-> "<None>", visualization |-> None, vis_params |-> None,
     error_message |-> None]

\* BIOrchestrator._prepare_initial_state
BIPrepareInitialState ==
    [intermediate_steps |-> <<>>,
     current_step |-> 1,
     sql_result |-> NoResult,
     visualization_result |-> NoVisualization,
     final_answer |-> None,
     error |-> None]

\* the VisAgentState of a VisualizationAgent that built none yet
NoVisState ==
    [user_question |-> None, sql_query |-> None, dataframe |-> None,
     visualization_agent_framework |-> None, agent_scratchpad |-> <<>>,
     current_step |-> 0, final_visualization |-> None, error |-> None]

\* VisualizationAgent.__init__: the visualization agent is at rest in Spec
\* and in SpecBI
VisIdle ==
    /\ visPc = "idle"
    /\ visState = NoVisState
    /\ visCalls = <<>>
    /\ visResult = NoVisualization


\* the pieces of the DDL texts
KwCreate == <<"C", "R", "E", "A", "T", "E">>
KwTable == <<"T", "A", "B", "L", "E">>
KwIf == <<"I", "F">>
KwNot == <<"N", "O", "T">>
KwExists == <<"E", "X", "I", "S", "T", "S">>

\* names of tables and columns
Users == <<"u", "s", "e", "r", "s">>
Orders == <<"o", "r", "d", "e", "r", "s">>
OrderTable == <<"o", "r", "d", "e", "r">>
Status == <<"s", "t", "a", "t", "u", "s">>
State == <<"s", "t", "a", "t", "e">>
Id == <<"i", "d">>
KeyId == <<"k", "e", "y", "_", "i", "d">>
Checked == <<"c", "h", "e", "c", "k", "e", "d">>

\* column types
Integer == <<"I", "N", "T", "E", "G", "E", "R">>
Varchar50 == <<"V", "A", "R", "C", "H", "A", "R", "(", "5", "0", ")">>
TextType == <<"T", "E", "X", "T">>

\* the six kinds of constraint lines of a CREATE TABLE block
ConstraintTexts ==
    {<<"P", "R", "I", "M", "A", "R", "Y", " ", "K", "E", "Y", " ", "(", "i", "d", ")">>,
     <<"F", "O", "R", "E", "I", "G", "N", " ", "K", "E", "Y", "(", "i", "d", ")", " ", "R", "E", "F", "E", "R", "E", "N", "C", "E", "S", " ", "t", " ", "(", "i", "d", ")">>,
     <<"U", "N", "I", "Q", "U", "E", " ", "(", "i", "d", ")">>,
     <<"C", "H", "E", "C", "K", " ", "(", "i", "d", " ", ">", " ", "0", ")">>,
     <<"C", "O", "N", "S", "T", "R", "A", "I", "N", "T", " ", "p", "k", " ", "P", "R", "I", "M", "A", "R", "Y", " ", "K", "E", "Y", " ", "(", "i", "d", ")">>,
     <<"K", "E", "Y", " ", "i", "d", "x", " ", "(", "i", "d", ")">>}

\* the backtick character (a TLA+ string cannot hold it)
Backtick == "<backtick>"

\* the ways a dialect writes an identifier: double quotes, backticks,
\* brackets, or bare
QuoteStyles == {"double", "backtick", "bracket", "bare"}

Quoted(style, name) ==
    CASE style = "double" -> <<"\"">> \o name \o <<"\"">>
      [] style = "backtick" -> <<Backtick>> \o name \o <<Backtick>>
      [] style = "bracket" -> <<"[">> \o name \o <<"]">>
      [] OTHER -> name

\* the lines of the DDL of a table, as get_table_info() prints them: a tab
\* before a column or constraint, ", " after every item but the last
CreateTableLine(style, table) ==
    KwCreate \o <<" ">> \o KwTable \o <<" ">> \o Quoted(style, table) \o
    <<" ", "(">>

ColumnLine(style, column, type, last) ==
    <<"\t">> \o Quoted(style, column) \o <<" ">> \o type \o
    (IF last THEN <<>> ELSE <<",", " ">>)

ConstraintLine(text) == <<"\t">> \o text

\* the schema of the database the workflow specifications run on
SchemaUsers ==
    Join(<<CreateTableLine("bare", Users),
           ColumnLine("bare", Id, Integer, FALSE),
           ColumnLine("bare", Status, Varchar50, FALSE),
           ConstraintLine(<<"P", "R", "I", "M", "A", "R", "Y", " ", "K", "E", "Y", " ", "(", "i", "d", ")">>), <<")">>>>)

\* no EnrichedDatabaseContext
NoContext ==
    [raw_schema |-> None, augmented_schema |-> None, schema_key |-> None,
     business_context |-> None]

\* the context builder is at rest in the specifications of the workflows
CtxIdle ==
    /\ ctxLlm = TRUE
    /\ ctxSchema = SchemaUsers
    /\ ctxCache = <<>>
    /\ ctxLog = <<>>
    /\ facContext = NoContext
    /\ facLastBc = None

\* no call yet
NoArgs == [op |-> "<none>"]

\* a call that has not returned: done, the exception raised, the value
NoReturn == [done |-> FALSE, raised |-> "", value |-> <<>>]

\* no function is being checked alone
FnIdle ==
    /\ callArgs = NoArgs
    /\ callResult = NoReturn

\* the cache providers are empty and unused
CacheIdle ==
    /\ cacheMem = <<>>
    /\ cacheFiles = <<>>
    /\ cacheLast = <<>>

\* the BIOrchestrator part is at rest in Spec
BIIdle ==
    /\ biPc = "idle"
    /\ biState = BIPrepareInitialState
    /\ biSteps = 0
    /\ biCalls = <<>>
    /\ biResult = NoBIResult

\* the SQL workflow part is at rest in SpecBI
SQLIdle ==
    /\ variant = "simple"
    /\ cfg = [max_attempts |-> MaxAttemptsCfg,
              max_reflection_attempts |-> MaxReflectionCfg]
    /\ auto_execute = TRUE
    /\ pc = "idle"
    /\ state = IdleState
    /\ calls = <<>>
    /\ result = NoResult

\* QueryOrchestrator.__init__ / SQLAgent.__init__
Init ==
    /\ variant \in Variants
    /\ cfg \in Configs
    /\ ~IsReflection(variant) => cfg.max_reflection_attempts = MaxReflectionCfg
    /\ auto_execute = TRUE
    /\ pc = "idle"
    /\ state = IdleState
    /\ calls = <<>>
    /\ result = NoResult
    /\ BIIdle
    /\ VisIdle
    /\ rerun = FALSE
    /\ CtxIdle
    /\ FnIdle
    /\ CacheIdle

\* run(question, context, chat_history, auto_execute): build the initial state
Run(auto) ==
    /\ pc \in {"idle", "done", "raised"}
    /\ auto_execute' = auto
    /\ state' = PrepareInitialState(auto)
    /\ calls' = <<>>
    /\ result' = NoResult
    /\ pc' = "generate_sql"
    /\ rerun' = (pc # "idle")
    /\ UNCHANGED <<variant, cfg>>
    /\ UNCHANGED <<biVars, visVars, ctxVars, fnVars, cacheVars>>

\* the generate_sql node and the edge out of it
Generate(response) ==
    /\ pc = "generate_sql"
    /\ state' = GenerateSqlNode(state, response)
    /\ calls' = Append(calls, Call("generate", PromptHistory(state),
                                   response.status, response.query))
    /\ pc' = AfterGenerate(variant, auto_execute, state')
    /\ UNCHANGED <<variant, cfg, auto_execute, result>>
    /\ UNCHANGED notSql

\* the reflection_node and the decide_after_reflection edge
Reflect(review) ==
    /\ pc = "reflection_node"
    /\ state' = ReflectionNode(variant, state, review)
    /\ calls' = Append(calls, Call("reflect", state.generation_result.query,
                                   review.decision, review.suggestions))
    /\ pc' = IF DecideAfterReflectionNode(state') = "regenerate"
             THEN "generate_sql" ELSE "execute_sql"
    /\ UNCHANGED <<variant, cfg, auto_execute, result>>
    /\ UNCHANGED notSql

\* execute_sql node when the generation did not succeed: returns {}
ExecuteSkipped ==
    /\ pc = "execute_sql"
    /\ state.generation_result.status # "success"
    /\ pc' = IF ShouldRetryNode(state) = "retry"
             THEN "generate_sql" ELSE "format_output"
    /\ UNCHANGED <<variant, cfg, auto_execute, state, calls, result>>
    /\ UNCHANGED notSql

\* execute_sql node on a success without a query: None.strip() raises
\* AttributeError, which the node does not catch and run() lets through
ExecuteNoQuery ==
    /\ pc = "execute_sql"
    /\ state.generation_result.status = "success"
    /\ state.generation_result.query = None
    /\ pc' = "raised"
    /\ UNCHANGED <<variant, cfg, auto_execute, state, calls, result>>
    /\ UNCHANGED notSql

\* execute_sql node calling execute_for_dataframe, and the should_retry edge
ExecuteSql(outcome) ==
    /\ pc = "execute_sql"
    /\ state.generation_result.status = "success"
    /\ state.generation_result.query # None
    /\ calls' = Append(calls,
           Call("execute", Strip(state.generation_result.query), outcome.kind,
                IF outcome.kind = "ok" THEN outcome.dataframe
                ELSE outcome.message))
    /\ IF outcome.kind = "OtherException"
       THEN /\ pc' = "raised"
            /\ state' = state
       ELSE /\ state' = ExecuteSqlNode(state, outcome)
            /\ pc' = IF ShouldRetryNode(state') = "retry"
                     THEN "generate_sql" ELSE "format_output"
    /\ UNCHANGED <<variant, cfg, auto_execute, result>>
    /\ UNCHANGED notSql

\* the formatting of a plan that reaches validate_sql
FormatValidated(vo) ==
    /\ pc = "format_output"
    /\ CallsValidate(auto_execute, state)
    /\ calls' = Append(calls, Call("validate", state.generation_result.query,
                                   vo.kind, vo.message))
    /\ IF vo.kind = "TypeError"
       THEN /\ pc' = "raised"
            /\ result' = result
       ELSE /\ pc' = "done"
            /\ result' = PlanOutput(variant, state, vo)
    /\ UNCHANGED <<variant, cfg, auto_execute, state>>
    /\ UNCHANGED notSql

\* the formatting of every other final state
FormatPlain ==
    /\ pc = "format_output"
    /\ ~CallsValidate(auto_execute, state)
    /\ result' = IF variant = "agent"
                 THEN AgentFormatOutput(auto_execute, state)
                 ELSE FormatOutput(auto_execute, state)
    /\ pc' = "done"
    /\ UNCHANGED <<variant, cfg, auto_execute, state, calls>>
    /\ UNCHANGED notSql

Next ==
    \/ \E auto \in BOOLEAN : Run(auto)
    \/ \E response \in LLM_SQLResponse : Generate(response)
    \/ \E review \in ReflectionReview : Reflect(review)
    \/ ExecuteSkipped
    \/ ExecuteNoQuery
    \/ \E outcome \in ExecOutcomes : ExecuteSql(outcome)
    \/ \E vo \in ValidateOutcomes(state.generation_result.query) :
           FormatValidated(vo)
    \/ FormatPlain

Spec == Init /\ [][Next]_vars

\* ------------------------------------------------------------------------
\* The BIOrchestrator ReAct loop
\* ------------------------------------------------------------------------

\* config={"recursion_limit": 15} of app.invoke in BIOrchestrator.run: the
\* graph raises GraphRecursionError when it has not reached END after that
\* many node executions
RecursionLimit == 15

\* the step cap of should_continue_node
MaxSteps == 10

\* the length limit of the clarification heuristic of _format_output
ShortAnswerLen == 200

\* a chunk standing for a text of ShortAnswerLen characters; as far as
\* len() < ShortAnswerLen goes, every other chunk is one character
LongText == "<long text>"

RECURSIVE PyLen(_)
PyLen(s) ==
    IF s = <<>> THEN 0
    ELSE (IF Head(s) = LongText THEN ShortAnswerLen ELSE 1) + PyLen(Tail(s))

\* c in s
Contains(s, c) == \E i \in DOMAIN s : s[i] = c

\* what the router LLM returns to think_node, as think_node reads it: the
\* action and the argument of that action
RouterResponses ==
    [reasoning : {<<"thought">>}, action : {"sql_agent"},
     args : {<<"how many users">>}]
    \cup
    [reasoning : {<<"thought">>}, action : {"visualization_agent"},
     args : {<<"{sql_query, instruction}">>}]
    \cup
    [reasoning : {<<"thought">>}, action : {"FinalAnswer"},
     args : {None, <<"There are 42 users.">>, <<"Which table", "?">>,
             <<LongText, "?">>}]

\* what sql_agent.run(question, context, auto_execute=True) returns
SqlAgentResults ==
    {[SQLResult("success") EXCEPT !.dataframe = <<"row1", "row2">>,
                                  !.sql_query = <<"SELECT a">>],
     [SQLResult("clarification_needed") EXCEPT
          !.clarification_question = <<"which column?">>],
     SQLResult("clarification_needed"),
     [SQLResult("error") EXCEPT
          !.error_message = <<"SQL execution failed after ", "3",
                              " attempts: ", "Error executing SQL: ",
                              "Database execution failed: ", "syntax error">>,
          !.sql_query = <<"SELECT a">>]}

\* what vis_agent.run(user_question, sql_result) returns to the tool node of
\* the BIOrchestrator, whose vis_agent is a constructor argument
VisualizationResults ==
    {[status |-> "success", visualization |-> <<"figure">>,
      vis_params |-> <<"bar", "{x, y}">>, error_message |-> None],
     [status |-> "error", visualization |-> None, vis_params |-> None,
      error_message |-> <<"Error executing bar: ", "bad column">>]}

\* think_node: one more scratchpad entry with an empty observation
ThinkNode(s, response) ==
    [s EXCEPT !.intermediate_steps = Append(s.intermediate_steps,
        [reasoning |-> response.reasoning, action |-> response.action,
         action_args |-> response.args, observation |-> <<>>])]

LastStep(s) == s.intermediate_steps[Len(s.intermediate_steps)]

\* intermediate_steps + [...]: the outcome added as one more entry
Observe_Appends(s, observation) ==
    Append(s.intermediate_steps,
           [LastStep(s) EXCEPT !.observation = observation])

\* intermediate_steps[:-1] + [(reasoning, (action, action_args), observation)]
Observe(s, observation) ==
    [s.intermediate_steps EXCEPT ![Len(s.intermediate_steps)].observation =
         observation]

\* the observation of a returned SQLResult; the tables of the model have one
\* column
SqlObservation(r) ==
    IF r.status = "success"
    THEN <<"Successfully executed SQL query: ">> \o r.sql_query
         \o <<".\nResult has ", ToString(Len(r.dataframe)), " rows and ",
              "1", " columns.">>
    ELSE IF r.status = "clarification_needed"
    THEN <<"The SQL agent requires clarification: ">> \o r.clarification_question
    ELSE <<"SQL agent returned an error: ">> \o r.error_message

\* tool_execution_node without the status test of the stored SQL result
CanVisualize_AnyResult(s) ==
    s.sql_result # NoResult

\* may tool_execution_node call the visualization agent
CanVisualize(s) ==
    s.sql_result # NoResult /\ s.sql_result.status = "success"

\* the sql_agent branch keeping the old result unless the run succeeded
ToolSqlAgent_StoresOnlySuccess(s, r) ==
    [s EXCEPT !.sql_result = IF r.status = "success" THEN r ELSE @,
              !.intermediate_steps = Observe(s, SqlObservation(r))]

\* tool_execution_node, action sql_agent with a question, sql_agent.run returned
ToolSqlAgent(s, r) ==
    [s EXCEPT !.sql_result = r,
              !.intermediate_steps = Observe(s, SqlObservation(r))]

\* tool_execution_node, action visualization_agent, vis_agent.run returned
ToolVisualization(s, v) ==
    [s EXCEPT !.visualization_result = v,
              !.intermediate_steps = Observe(s,
                  IF v.status = "success"
                  THEN <<"Successfully generated visualization.">>
                  ELSE <<"Visualization agent returned an error: ">>
                       \o v.error_message)]

\* tool_execution_node, action FinalAnswer with an answer
ToolFinalAnswer(s) ==
    [s EXCEPT !.final_answer = LastStep(s).action_args,
              !.intermediate_steps = Observe(s, <<"Final answer provided.">>)]

\* tool_execution_node, the ValueError raised inside the try block and caught:
\* the observation is the error, the stored results are left as they are
ToolError(s) ==
    [s EXCEPT !.intermediate_steps = Observe(s,
        <<"Error: ">> \o
        (IF LastStep(s).action = "sql_agent"
         THEN <<"Missing 'question' argument for sql_agent.">>
         ELSE IF LastStep(s).action = "visualization_agent"
         THEN <<"Cannot run visualization agent without a successful SQL result.">>
         ELSE <<"Missing 'answer' argument for FinalAnswer.">>))]

\* str(e) of an exception that sql_agent.run let through
SqlAgentException == <<"Recursion limit of 25 reached">>

\* tool_execution_node, action sql_agent with a question, sql_agent.run
\* raised: the except branch records the error, sql_result_state is still the
\* value read from the state
ToolSqlAgentRaised(s) ==
    [s EXCEPT !.sql_result = s.sql_result,
              !.intermediate_steps =
                  Observe(s, <<"Error: ">> \o SqlAgentException)]

\* should_continue_node
ShouldContinueNode(s) ==
    IF LastStep(s).action = "FinalAnswer" THEN "end"
    ELSE IF s.current_step >= MaxSteps THEN "end"
    ELSE "continue"

\* "\n".join(step[0] for step in intermediate_steps)
ConsolidatedReasoning(s) ==
    Join([i \in DOMAIN s.intermediate_steps |->
              s.intermediate_steps[i].reasoning])

\* the heuristic without its length limit
IsShortQuestion_AnyLength(final_answer) ==
    Contains(final_answer, "?")

\* "?" in final_answer and len(final_answer) < 200
IsShortQuestion(final_answer) ==
    Contains(final_answer, "?") /\ PyLen(final_answer) < ShortAnswerLen

\* BIOrchestrator._format_output
BIFormatOutput(s) ==
    LET final_answer == IF Truthy(s.final_answer) THEN s.final_answer ELSE <<>>
        sql == s.sql_result
        vis == s.visualization_result
        Result(status, answer) ==
            [NoBIResult EXCEPT !.status = status, !.final_answer = answer,
                               !.reasoning = ConsolidatedReasoning(s)]
    IN  IF sql # NoResult /\ sql.status = "clarification_needed"
        THEN Result("clarification_needed", sql.clarification_question)
        ELSE IF IsShortQuestion(final_answer)
        THEN Result("clarification_needed", final_answer)
        ELSE IF Truthy(s.error)
        THEN [Result("error", IF final_answer # <<>> THEN final_answer
                              ELSE <<"An error occurred.">>)
                 EXCEPT !.error_message = s.error]
        ELSE IF sql # NoResult /\ sql.status = "error"
        THEN [Result("error", IF final_answer # <<>> THEN final_answer
                 ELSE <<"An error occurred during SQL generation or execution.">>)
                 EXCEPT !.error_message = sql.error_message]
        ELSE [Result("success", IF final_answer # <<>> THEN final_answer
                                ELSE <<"Request processed successfully.">>)
                 EXCEPT !.dataframe = sql.dataframe,
                        !.visualization = vis.visualization,
                        !.sql_query = sql.sql_query,
                        !.visualization_params = vis.vis_params]

\* BIOrchestrator.__init__
InitBI ==
    /\ SQLIdle
    /\ BIIdle
    /\ VisIdle
    /\ rerun = FALSE
    /\ CtxIdle
    /\ FnIdle
    /\ CacheIdle

\* BIOrchestrator.run: build the initial state and enter the graph
BIRun ==
    /\ biPc \in {"idle", "done", "raised"}
    /\ biState' = BIPrepareInitialState
    /\ biSteps' = 0
    /\ biCalls' = <<>>
    /\ biResult' = NoBIResult
    /\ biPc' = "think"
    /\ rerun' = (biPc # "idle")
    /\ UNCHANGED <<sqlVars, visVars, ctxVars, fnVars, cacheVars>>

\* the think node
BIThink(response) ==
    /\ biPc = "think"
    /\ biSteps < RecursionLimit
    /\ biState' = ThinkNode(biState, response)
    /\ biSteps' = biSteps + 1
    /\ biPc' = "execute_tool"
    /\ UNCHANGED <<biCalls, biResult>>
    /\ UNCHANGED notBI

\* where the should_continue edge leads from the state the tool node left
BIAfterTool(s) ==
    IF ShouldContinueNode(s) = "continue" THEN "think" ELSE "format_output"

\* the execute_tool node running the SQL agent
BIToolSqlAgent(r) ==
    /\ biPc = "execute_tool"
    /\ biSteps < RecursionLimit
    /\ LastStep(biState).action = "sql_agent"
    /\ Truthy(LastStep(biState).action_args)
    /\ biState' = ToolSqlAgent(biState, r)
    /\ biCalls' = Append(biCalls,
           [op |-> "sql_agent", stored |-> biState.sql_result.status,
            out |-> r.status])
    /\ biSteps' = biSteps + 1
    /\ biPc' = BIAfterTool(biState')
    /\ UNCHANGED biResult
    /\ UNCHANGED notBI

\* the execute_tool node running the visualization agent
BIToolVisualization(v) ==
    /\ biPc = "execute_tool"
    /\ biSteps < RecursionLimit
    /\ LastStep(biState).action = "visualization_agent"
    /\ CanVisualize(biState)
    /\ biState' = ToolVisualization(biState, v)
    /\ biCalls' = Append(biCalls,
           [op |-> "vis_agent", stored |-> biState.sql_result.status,
            out |-> v.status])
    /\ biSteps' = biSteps + 1
    /\ biPc' = BIAfterTool(biState')
    /\ UNCHANGED biResult
    /\ UNCHANGED notBI

\* the execute_tool node storing the final answer
BIToolFinalAnswer ==
    /\ biPc = "execute_tool"
    /\ biSteps < RecursionLimit
    /\ LastStep(biState).action = "FinalAnswer"
    /\ Truthy(LastStep(biState).action_args)
    /\ biState' = ToolFinalAnswer(biState)
    /\ biSteps' = biSteps + 1
    /\ biPc' = BIAfterTool(biState')
    /\ UNCHANGED <<biCalls, biResult>>
    /\ UNCHANGED notBI

\* the execute_tool node raising and catching its ValueError: a missing
\* argument, or a visualization without a successful SQL result
BIToolError ==
    /\ biPc = "execute_tool"
    /\ biSteps < RecursionLimit
    /\ \/ /\ LastStep(biState).action \in {"sql_agent", "FinalAnswer"}
          /\ ~Truthy(LastStep(biState).action_args)
       \/ /\ LastStep(biState).action = "visualization_agent"
          /\ ~CanVisualize(biState)
    /\ biState' = ToolError(biState)
    /\ biSteps' = biSteps + 1
    /\ biPc' = BIAfterTool(biState')
    /\ UNCHANGED <<biCalls, biResult>>
    /\ UNCHANGED notBI

\* the execute_tool node whose SQL agent run raised
BIToolSqlAgentRaised ==
    /\ biPc = "execute_tool"
    /\ biSteps < RecursionLimit
    /\ LastStep(biState).action = "sql_agent"
    /\ Truthy(LastStep(biState).action_args)
    /\ biState' = ToolSqlAgentRaised(biState)
    /\ biSteps' = biSteps + 1
    /\ biPc' = BIAfterTool(biState')
    /\ UNCHANGED <<biCalls, biResult>>
    /\ UNCHANGED notBI

\* the graph has run RecursionLimit nodes without reaching END: app.invoke
\* raises GraphRecursionError, which run() lets through
BIRecursionError ==
    /\ biPc \in {"think", "execute_tool"}
    /\ biSteps >= RecursionLimit
    /\ biPc' = "raised"
    /\ UNCHANGED <<biState, biSteps, biCalls, biResult>>
    /\ UNCHANGED notBI

\* BIResult.final_answer is a required str: constructing a BIResult with
\* final_answer=None raises pydantic's ValidationError
BIResultIsValid(r) == r.final_answer # None

\* _format_output of the final state; run() returns the BIResult, or lets
\* the ValidationError of its construction through
BIFormat ==
    /\ biPc = "format_output"
    /\ IF BIResultIsValid(BIFormatOutput(biState))
       THEN biResult' = BIFormatOutput(biState) /\ biPc' = "done"
       ELSE biResult' = biResult /\ biPc' = "raised"
    /\ UNCHANGED <<biState, biSteps, biCalls>>
    /\ UNCHANGED notBI

NextBI ==
    \/ BIRun
    \/ \E response \in RouterResponses : BIThink(response)
    \/ \E r \in SqlAgentResults : BIToolSqlAgent(r)
    \/ \E v \in VisualizationResults : BIToolVisualization(v)
    \/ BIToolFinalAnswer
    \/ BIToolError
    \/ BIRecursionError
    \/ BIFormat

SpecBI == InitBI /\ [][NextBI]_vars

\* ------------------------------------------------------------------------
\* The VisualizationAgent ReAct loop
\* ------------------------------------------------------------------------

\* the step cap of should_continue_node of the visualization workflow
VisMaxSteps == 3

\* self.vis_framework: the text of vis_agent/react_agent.prompt, a str
VisFramework == [type |-> "str", text |-> <<"<react_agent.prompt>">>]

\* the functions of plotly.express among the chart types of the model
PxFunctions == {"bar"}

\* a column name that the table does not have
BadColumn == "no_such_column"

\* the SQL results VisualizationAgent.run is called with: without a table,
\* with an empty one, with one and with two rows
VisSqlResults ==
    {[SQLResult("success") EXCEPT !.dataframe = df, !.sql_query = q] :
        df \in {None, <<>>, <<"row1">>, <<"row1", "row2">>},
        q \in {<<"SELECT a">>, <<"SELECT b">>}}

VisQuestions == {<<"plot users">>, <<"plot sales">>}

\* visualization_toolset = {}
EmptyToolset == [tool |-> "<none>", args |-> {}]

\* VisualizationToolset: what generate_structured returns to think_node. The
\* toolset is a dict with one chart type mapped to its arguments; of the
\* arguments the model keeps the keys
VisualizationToolset ==
    [reasoning : {<<"a bar chart">>, <<"try again">>},
     visualization_toolset :
        {EmptyToolset,
         [tool |-> "bar", args |-> {"x", "y"}],
         [tool |-> "bar", args |-> {"x", BadColumn}],
         [tool |-> "bar", args |-> {"data_frame", "x"}],
         [tool |-> "waterfall_chart", args |-> {"x", "y"}]}]

\* an initial state that keeps the scratchpad and the outcome of the run before
VisPrepareInitialState_KeepsScratchpad(user_question, sql_result) ==
    [user_question |-> user_question,
     sql_query |-> sql_result.sql_query,
     dataframe |-> sql_result.dataframe,
     visualization_agent_framework |-> VisFramework,
     agent_scratchpad |-> visState.agent_scratchpad,
     current_step |-> 1,
     final_visualization |-> visState.final_visualization,
     error |-> visState.error]

\* VisualizationAgent._prepare_initial_state
VisPrepareInitialState(user_question, sql_result) ==
    [user_question |-> user_question,
     sql_query |-> sql_result.sql_query,
     dataframe |-> sql_result.dataframe,
     visualization_agent_framework |-> VisFramework,
     agent_scratchpad |-> <<>>,
     current_step |-> 1,
     final_visualization |-> None,
     error |-> None]

\* run() without the test of the table
VisRefuses_Never(sql_result) ==
    FALSE

\* sql_result.dataframe is None or sql_result.dataframe.empty
VisRefuses(sql_result) ==
    sql_result.dataframe = None \/ Len(sql_result.dataframe) = 0

\* think_node of the visualization workflow
VisThinkNode(s, response) ==
    [s EXCEPT !.agent_scratchpad = Append(s.agent_scratchpad,
        [reasoning |-> response.reasoning,
         toolset |-> response.visualization_toolset,
         observation |-> <<>>])]

VisLastStep(s) == s.agent_scratchpad[Len(s.agent_scratchpad)]

\* vis_func(**args) of plotly.express on the table: a figure made of the
\* chart type and its arguments, or the ValueError of a missing column
PxCall(tool, args) ==
    IF BadColumn \in args
    THEN [raised |-> "ValueError", figure |-> None]
    ELSE [raised |-> "", figure |-> <<"figure", tool>>]

\* what tool_execution_node raises before its try block:
\*   next(iter(toolset.items())) on an empty dict;
\*   state["visualization_agent_framework"][tool_name], a str indexed by a str
VisToolRaises(s) ==
    IF VisLastStep(s).toolset = EmptyToolset THEN "StopIteration"
    ELSE IF s.visualization_agent_framework.type = "str" THEN "TypeError"
    ELSE ""

\* the try block and the return of tool_execution_node; args is the dict of
\* the toolset held by the scratchpad, so args["data_frame"] = ... adds the
\* key to the scratchpad entry too
VisToolExecutionNode(s) ==
    LET last == VisLastStep(s)
        tool == last.toolset.tool
        n == Len(s.agent_scratchpad)
        args == last.toolset.args \cup {"data_frame"}
        call == PxCall(tool, args)
    IN  IF tool \notin PxFunctions
        THEN [s EXCEPT !.final_visualization = None,
                 !.error = <<"Error executing ", tool, ": ", "Chart type '",
                             tool, "' requires go.Figure and is not yet supported in this dynamic workflow.">>,
                 !.agent_scratchpad[n].observation =
                     <<"Error executing ", tool, ": ", "Chart type '",
                       tool, "' requires go.Figure and is not yet supported in this dynamic workflow.">>]
        ELSE IF call.raised # ""
        THEN [s EXCEPT !.final_visualization = None,
                 !.error = <<"Error executing ", tool, ": ", "missing column">>,
                 !.agent_scratchpad[n].toolset.args = args,
                 !.agent_scratchpad[n].observation =
                     <<"Error executing ", tool, ": ", "missing column">>]
        ELSE [s EXCEPT !.final_visualization = call.figure,
                 !.error = None,
                 !.agent_scratchpad[n].toolset.args = args,
                 !.agent_scratchpad[n].observation =
                     <<"Successfully generated '", tool, "'.">>]

\* should_continue_node of the visualization workflow; what it assigns to
\* state["error"] is assigned in an edge and is not part of the graph state
VisShouldContinueNode(s) ==
    IF s.final_visualization # None THEN "end"
    ELSE IF s.current_step >= VisMaxSteps THEN "end"
    ELSE "continue"

\* VisualizationAgent._format_output
VisFormatOutput(s) ==
    IF s.final_visualization # None
    THEN [NoVisualization EXCEPT !.status = "success",
              !.visualization = s.final_visualization,
              !.vis_params = VisLastStep(s).toolset]
    ELSE [NoVisualization EXCEPT !.status = "error",
              !.error_message = IF Truthy(s.error) THEN s.error
                                ELSE <<"Unknown error occurred.">>]

\* VisualizationAgent.__init__
InitVis ==
    /\ SQLIdle
    /\ BIIdle
    /\ VisIdle
    /\ rerun = FALSE
    /\ CtxIdle
    /\ FnIdle
    /\ CacheIdle

\* VisualizationAgent.run up to the first node of the graph, or up to the
\* return of the error for a missing or empty table
VisRun(user_question, sql_result) ==
    /\ visPc \in {"idle", "done", "raised"}
    /\ visCalls' = <<[op |-> "run", arg |-> sql_result.dataframe]>>
    /\ IF VisRefuses(sql_result)
       THEN /\ visState' = NoVisState
            /\ visResult' = [NoVisualization EXCEPT !.status = "error",
                   !.error_message =
                       <<"Cannot generate visualization from an empty or missing DataFrame.">>]
            /\ visPc' = "done"
       ELSE /\ visState' = VisPrepareInitialState(user_question, sql_result)
            /\ visResult' = NoVisualization
            /\ visPc' = "think"
    /\ rerun' = (visPc # "idle")
    /\ UNCHANGED <<sqlVars, biVars, ctxVars, fnVars, cacheVars>>

\* the think node: one LLM call
VisThink(response) ==
    /\ visPc = "think"
    /\ visState' = VisThinkNode(visState, response)
    /\ visCalls' = Append(visCalls, [op |-> "generate_structured",
                                     arg |-> response.visualization_toolset])
    /\ visPc' = "execute_tool"
    /\ UNCHANGED visResult
    /\ UNCHANGED notVis

\* the execute_tool node, the should_continue edge after it and, at END, the
\* return of run(); an exception of the node leaves app.invoke and run()
VisAct ==
    /\ visPc = "execute_tool"
    /\ IF VisToolRaises(visState) # ""
       THEN /\ visPc' = "raised"
            /\ UNCHANGED <<visState, visResult>>
       ELSE /\ visState' = VisToolExecutionNode(visState)
            /\ IF VisShouldContinueNode(visState') = "continue"
               THEN visPc' = "think" /\ UNCHANGED visResult
               ELSE visPc' = "done" /\ visResult' = VisFormatOutput(visState')
    /\ UNCHANGED visCalls
    /\ UNCHANGED notVis

NextVis ==
    \/ \E q \in VisQuestions, r \in VisSqlResults : VisRun(q, r)
    \/ \E response \in VisualizationToolset : VisThink(response)
    \/ VisAct

SpecVis == InitVis /\ [][NextVis]_vars

\* ------------------------------------------------------------------------
\* build_context: the enriched context and its cache
\* ------------------------------------------------------------------------

\* max_values of DBContextAnalyzer.__init__: the display cap of format_values
MaxValues == 25

\* the number of values format_values shows of a list over the display cap
ShownValues == 8

\* another schema, with the empty lines get_table_info() puts around the DDL
\* of a table
SchemaOrders ==
    <<"\n">> \o
    Join(<<CreateTableLine("bare", Orders),
           ColumnLine("bare", State, TextType, TRUE), <<")">>>>) \o
    <<"\n", "\n">>

Schemas == {SchemaUsers, SchemaOrders}

BusinessContexts == {None, <<"active means paid">>}

\* hashlib.sha256(raw_schema.encode()).hexdigest(): one digest per text
Sha256(raw_schema) == <<"sha256">> \o raw_schema

\* hash(business_context) within one process
PyHash(business_context) == <<"hash">> \o business_context

\* f"{schema_key}-{hash(business_context)}"
FullKey(schema_key, business_context) ==
    <<schema_key, "-", PyHash(business_context)>>

\* no match of a pattern
NoMatch == [end |-> 0, name |-> <<>>]

\* IDENTIFIER matched at position i of a line: the position of its last
\* character and the text of its group. "([^"]+)" and the same with backticks
\* take the text up to the next quote; (\w+) takes the longest run of word
\* characters; the alternative written for brackets begins with the
\* end-of-string anchor and then asks for one more character, so it matches
\* nowhere
IdentifierAt(line, i) ==
    IF i > Len(line) THEN NoMatch
    ELSE IF line[i] \in {"\"", Backtick}
    THEN LET e == UntilEnd(line, i + 1, line[i])
         IN  IF e > i /\ e < Len(line)
             THEN [end |-> e + 1, name |-> SubSeq(line, i + 1, e)]
             ELSE NoMatch
    ELSE LET e == WordEnd(line, i)
         IN  IF e >= i THEN [end |-> e, name |-> SubSeq(line, i, e)]
             ELSE NoMatch

\* \s+ at position i of a line: the position after the spaces, 0 if there
\* is no space at i
AfterSpaces(line, i) ==
    IF i > Len(line) \/ ~IsSpace(line[i]) THEN 0
    ELSE SpacesEnd(line, i) + 1

\* (?:IDENTIFIER\.)?IDENTIFIER at position i: the table identifier, after a
\* schema prefix when one matches with a table identifier behind it
QualifiedAt(line, i) ==
    LET first == IdentifierAt(line, i)
        second == IdentifierAt(line, first.end + 2)
    IN  IF /\ first # NoMatch
           /\ first.end < Len(line)
           /\ line[first.end + 1] = "."
           /\ second # NoMatch
        THEN second
        ELSE first

\* table_pattern matched at position i: CREATE\s+TABLE\s+, the optional
\* IF\s+NOT\s+EXISTS\s+, then the qualified identifier (without the optional
\* part when the identifier does not match behind it)
TableAt(line, i) ==
    LET a == AfterSpaces(line, i + Len(KwCreate))
        b == AfterSpaces(line, a + Len(KwTable))
        c == AfterSpaces(line, b + Len(KwIf))
        d == AfterSpaces(line, c + Len(KwNot))
        e == AfterSpaces(line, d + Len(KwExists))
        optional == /\ StartsWithAt(line, b, KwIf) /\ c > 0
                    /\ StartsWithAt(line, c, KwNot) /\ d > 0
                    /\ StartsWithAt(line, d, KwExists) /\ e > 0
    IN  IF ~(/\ StartsWithAt(line, i, KwCreate) /\ a > 0
             /\ StartsWithAt(line, a, KwTable) /\ b > 0)
        THEN NoMatch
        ELSE IF optional /\ QualifiedAt(line, e) # NoMatch
        THEN QualifiedAt(line, e)
        ELSE QualifiedAt(line, b)

\* table_pattern.search(line), then extract_identifier(groups()[-4:]): the
\* table named by the first match in the line, <<>> when there is none
TableOf(line) ==
    LET hits == {i \in DOMAIN line : /\ UpperChar(line[i]) = Head(KwCreate)
                                      /\ TableAt(line, i) # NoMatch}
    IN  IF hits = {} THEN <<>>
        ELSE TableAt(line, CHOOSE i \in hits : \A j \in hits : i <= j).name

\* CONSTRAINT_KEYWORDS
ConstraintKeywords ==
    {<<"P", "R", "I", "M", "A", "R", "Y">>,
     <<"F", "O", "R", "E", "I", "G", "N">>,
     <<"U", "N", "I", "Q", "U", "E">>,
     <<"C", "H", "E", "C", "K">>,
     <<"C", "O", "N", "S", "T", "R", "A", "I", "N", "T">>,
     <<"K", "E", "Y">>}

\* a test that takes no line for a constraint
IsConstraintLine_Never(line) ==
    FALSE

\* is_constraint_line(line): line.strip().upper() starts with a keyword
IsConstraintLine(line) ==
    \E kw \in ConstraintKeywords : StartsWithAt(Strip(line), 1, kw)

\* column_pattern.match(line), then extract_identifier(groups()[:4]): the
\* column of a line made of spaces, an identifier, spaces and a type that
\* begins with a letter; <<>> when the line does not match
ColumnOf(line) ==
    LET a == AfterSpaces(line, 1)
        id == IdentifierAt(line, a)
        b == AfterSpaces(line, id.end + 1)
    IN  IF a > 0 /\ id # NoMatch /\ b > 0 /\ b <= Len(line)
           /\ IsLetter(line[b])
        THEN id.name
        ELSE <<>>

\* the values of a column: str and int
DistinctValues ==
    <<[type |-> "str", text |-> "active"], [type |-> "str", text |-> "inactive"],
      [type |-> "int", text |-> "3"]>>

\* a list longer than the display cap
ManyValues == [i \in 1..(MaxValues + 1) |-> [type |-> "int", text |-> ToString(i)]]

\* the entries fetch_distinct_values gives for one column
ColumnSamples ==
    {[type |-> "list", value |-> DistinctValues],
     [type |-> "str", value |-> <<"TOO_MANY_VALUES">>],
     [type |-> "str", value |-> <<"ERROR_FETCHING">>]}

\* ', '.join(f"'{v}'" if isinstance(v, str) else str(v) for v in values)
RECURSIVE FormatList(_)
FormatList(values) ==
    IF values = <<>> THEN <<>>
    ELSE (IF Head(values).type = "str"
          THEN <<"'", Head(values).text, "'">>
          ELSE <<Head(values).text>>)
         \o (IF Len(values) > 1 THEN <<", ">> ELSE <<>>)
         \o FormatList(Tail(values))

\* a format_values that lists the values whatever the entry is
FormatValues_ListsMarkers(values) ==
    <<"Possible values: ">> \o
    (IF values.type = "list" THEN FormatList(values.value)
     ELSE <<"'">> \o values.value \o <<"'">>)

\* format_values(values)
FormatValues(values) ==
    IF values.type = "list"
    THEN IF Len(values.value) <= MaxValues
         THEN <<"Possible values: ">> \o FormatList(values.value)
         ELSE <<"Possible values: ">> \o
              FormatList(SubSeq(values.value, 1, ShownValues)) \o
              <<" ... (+", ToString(Len(values.value) - ShownValues),
                " more)">>
    ELSE IF values.value = <<"TOO_MANY_VALUES">>
    THEN <<"Too many distinct values">>
    ELSE values.value

\* the loop of _synthesize_augmented_schema over the lines, current_table
\* being <<>> before the first CREATE TABLE line
RECURSIVE SynthesizeLines(_, _, _)
SynthesizeLines(lines, current_table, fetched_values) ==
    IF lines = <<>> THEN <<>>
    ELSE LET line == Head(lines)
             table == TableOf(line)
             col_name == ColumnOf(line)
             key == current_table \o <<".">> \o col_name
         IN  IF table # <<>>
             THEN <<line>> \o
                  SynthesizeLines(Tail(lines), table, fetched_values)
             ELSE IF /\ current_table # <<>>
                     /\ ~IsConstraintLine(line)
                     /\ col_name # <<>>
                     /\ key \in DOMAIN fetched_values
             THEN <<RStrip(line) \o <<" -- ">> \o
                    FormatValues(fetched_values[key])>> \o
                  SynthesizeLines(Tail(lines), current_table, fetched_values)
             ELSE <<line>> \o
                  SynthesizeLines(Tail(lines), current_table, fetched_values)

\* DBContextAnalyzer._synthesize_augmented_schema
SynthesizeAugmentedSchema(raw_schema, fetched_values) ==
    Join(SynthesizeLines(Split(Strip(raw_schema)), <<>>, fetched_values))

\* EnrichedDatabaseContext(...)
EnrichedDatabaseContext(raw_schema, augmented_schema, schema_key, business_context) ==
    [raw_schema |-> raw_schema, augmented_schema |-> augmented_schema,
     schema_key |-> schema_key, business_context |-> business_context]

\* context.model_dump_json(): the JSON text, field by field; a string is
\* written as a JSON string and None as null
ModelDumpJson(context) ==
  <<"json",
    [raw_schema |-> <<"string", context.raw_schema>>,
     augmented_schema |-> <<"string", context.augmented_schema>>,
     schema_key |-> <<"string", context.schema_key>>,
     business_context |-> IF context.business_context = None THEN <<"null">>
                          ELSE <<"string", context.business_context>>]>>

\* EnrichedDatabaseContext(**json.loads(text))
LoadContext(text) ==
    [raw_schema |-> text[2].raw_schema[2],
     augmented_schema |-> text[2].augmented_schema[2],
     schema_key |-> text[2].schema_key[2],
     business_context |-> IF text[2].business_context[1] = "null" THEN None
                          ELSE text[2].business_context[2]]

\* what the schema analyzer LLM returns: an InspectionPlan, or the call raises
\* (the provider fails, or the output is malformed: columns_to_inspect then
\* holds the entries of the output that were well formed)
InspectionPlans ==
    {[raised |-> TRUE, columns_to_inspect |-> <<>>],
     [raised |-> TRUE,
      columns_to_inspect |-> <<[table |-> Users, column |-> Status]>>],
     [raised |-> FALSE, columns_to_inspect |-> <<>>],
     [raised |-> FALSE,
      columns_to_inspect |-> <<[table |-> Users, column |-> Status]>>]}

\* an inspection list that keeps the entries of a failed plan
ColumnsToCheck_KeepsPlan(plan) ==
    plan.columns_to_inspect

\* columns_to_check after the try block: the plan's entries, or [] when the
\* call raised
ColumnsToCheck(plan) ==
    IF plan.raised THEN <<>> ELSE plan.columns_to_inspect

\* what fetch_distinct_values returns for the columns asked: one entry per
\* column, keyed table.column
FetchedValues(columns_to_check) ==
    LET keys == {columns_to_check[i].table \o <<".">> \o
                 columns_to_check[i].column : i \in DOMAIN columns_to_check}
    IN  [keys -> ColumnSamples]

\* cache_provider.get(key)
CacheGet(cache, key) == IF key \in DOMAIN cache THEN cache[key] ELSE None

\* cache_provider.set(key, value)
CacheSet(cache, key, value) ==
    [k \in DOMAIN cache \cup {key} |-> IF k = key THEN value ELSE cache[k]]

\* a hit test that never finds an entry
IsCacheHit_Never(cached_context_str) ==
    FALSE

\* if cached_context_str:
IsCacheHit(cached_context_str) ==
    cached_context_str # None /\ cached_context_str # <<>>

\* a context without an LLM whose augmented schema went through the synthesis
RawContext_Synthesized(raw_schema, schema_key, business_context) ==
    EnrichedDatabaseContext(raw_schema,
        SynthesizeAugmentedSchema(raw_schema, <<>>), schema_key,
        business_context)

\* the context build_context returns when there is no llm_interface
RawContext(raw_schema, schema_key, business_context) ==
    EnrichedDatabaseContext(raw_schema, raw_schema, schema_key,
                            business_context)

\* the record of a build_context call that has not returned yet
NoBuild ==
    [via |-> "build_context", business_context |-> None, raw_schema |-> <<>>,
     completed |-> FALSE, memoised |-> FALSE, hit |-> FALSE, llm_calls |-> 0, llm_raised |-> FALSE,
     sample_calls |-> 0, columns_to_check |-> <<>>, cache_reads |-> 0,
     cache_writes |-> 0, result |-> NoContext]

\* build_context(self, business_context) on the schema and cache of the
\* moment, with the answers of the LLM and of fetch_distinct_values: what it
\* calls, what it returns and the cache it leaves
BuildContextCall(llm, raw_schema, cache, business_context, plan, fetched, fetch_raises) ==
    LET schema_key == Sha256(raw_schema)
        full_key == FullKey(schema_key, business_context)
        cached_context_str == CacheGet(cache, full_key)
        call == [NoBuild EXCEPT !.business_context = business_context,
                                !.raw_schema = raw_schema]
        context == EnrichedDatabaseContext(raw_schema,
                       SynthesizeAugmentedSchema(raw_schema, fetched),
                       schema_key, business_context)
    IN  IF ~llm
        THEN [call |-> [call EXCEPT !.completed = TRUE,
                            !.result = RawContext(raw_schema, schema_key,
                                                  business_context)],
              cache |-> cache]
        ELSE IF IsCacheHit(cached_context_str)
        THEN [call |-> [call EXCEPT !.completed = TRUE, !.hit = TRUE,
                            !.cache_reads = 1,
                            !.result = LoadContext(cached_context_str)],
              cache |-> cache]
        ELSE IF fetch_raises
        THEN [call |-> [call EXCEPT !.cache_reads = 1, !.llm_calls = 1,
                            !.llm_raised = plan.raised, !.sample_calls = 1,
                            !.columns_to_check = ColumnsToCheck(plan)],
              cache |-> cache]
        ELSE [call |-> [call EXCEPT !.completed = TRUE, !.cache_reads = 1,
                            !.llm_calls = 1, !.llm_raised = plan.raised,
                            !.sample_calls = 1,
                            !.columns_to_check = ColumnsToCheck(plan),
                            !.cache_writes = 1, !.result = context],
              cache |-> CacheSet(cache, full_key, ModelDumpJson(context))]

\* if self._enriched_context and self._last_business_context == business_context
IsMemoised(enriched_context, last_business_context, business_context) ==
    enriched_context # NoContext /\ last_business_context = business_context

\* DBContextAnalyzer.__init__ and IntelliQuery.__init__, with or without an
\* llm_interface, on an empty cache
InitCtx ==
    /\ SQLIdle
    /\ BIIdle
    /\ VisIdle
    /\ rerun = FALSE
    /\ ctxLlm \in BOOLEAN
    /\ ctxSchema \in Schemas
    /\ ctxCache = <<>>
    /\ ctxLog = <<>>
    /\ facContext = NoContext
    /\ facLastBc = None
    /\ FnIdle
    /\ CacheIdle

\* the last two calls, after one more
Logged(log, call) ==
    IF log = <<>> THEN <<call>> ELSE <<log[Len(log)], call>>

\* one call of build_context, from its first line to its return or to the
\* exception of fetch_distinct_values leaving it; the columns asked are those
\* of the plan, or none when the LLM call raised
BuildContext(business_context, plan, fetched, fetch_raises) ==
    /\ fetched \in FetchedValues(ColumnsToCheck(plan))
    /\ \E built \in {BuildContextCall(ctxLlm, ctxSchema, ctxCache,
                                      business_context, plan, fetched,
                                      fetch_raises)} :
           /\ ctxLog' = Logged(ctxLog, built.call)
           /\ ctxCache' = built.cache
    /\ UNCHANGED <<ctxLlm, ctxSchema, facContext, facLastBc>>
    /\ UNCHANGED notCtx

\* IntelliQuery._get_or_build_context(business_context), as ask() calls it
\* before it runs the orchestrator: the memoised context when there is one for
\* this business_context, else build_context, whose result is memoised; an
\* exception of build_context leaves the memo as it was
GetOrBuildContext(business_context, plan, fetched, fetch_raises) ==
    /\ fetched \in FetchedValues(ColumnsToCheck(plan))
    /\ IF IsMemoised(facContext, facLastBc, business_context)
       THEN /\ ctxLog' = Logged(ctxLog,
                   [NoBuild EXCEPT !.via = "ask",
                                   !.business_context = business_context,
                                   !.raw_schema = ctxSchema,
                                   !.completed = TRUE, !.memoised = TRUE,
                                   !.result = facContext])
            /\ UNCHANGED <<ctxCache, facContext, facLastBc>>
       ELSE \E built \in {BuildContextCall(ctxLlm, ctxSchema, ctxCache,
                                           business_context, plan, fetched,
                                           fetch_raises)} :
                /\ ctxLog' = Logged(ctxLog, [built.call EXCEPT !.via = "ask"])
                /\ ctxCache' = built.cache
                /\ IF built.call.completed
                   THEN /\ facContext' = built.call.result
                        /\ facLastBc' = business_context
                   ELSE UNCHANGED <<facContext, facLastBc>>
    /\ UNCHANGED <<ctxLlm, ctxSchema>>
    /\ UNCHANGED notCtx

\* a migration changes the schema of the database
ChangeSchema(schema) ==
    /\ schema # ctxSchema
    /\ ctxSchema' = schema
    /\ UNCHANGED <<ctxLlm, ctxCache, ctxLog, facContext, facLastBc>>
    /\ UNCHANGED notCtx

NextCtx ==
    \/ \E business_context \in BusinessContexts, plan \in InspectionPlans,
          fetch_raises \in BOOLEAN :
          \E fetched \in FetchedValues(ColumnsToCheck(plan)) :
              BuildContext(business_context, plan, fetched, fetch_raises)
    \/ \E schema \in Schemas : ChangeSchema(schema)

SpecCtx == InitCtx /\ [][NextCtx]_vars

\* the facade: ask() gets its context from _get_or_build_context
NextFacade ==
    \/ \E business_context \in BusinessContexts, plan \in InspectionPlans,
          fetch_raises \in BOOLEAN :
          \E fetched \in FetchedValues(ColumnsToCheck(plan)) :
              GetOrBuildContext(business_context, plan, fetched, fetch_raises)
    \/ \E schema \in Schemas : ChangeSchema(schema)

SpecFacade == InitCtx /\ [][NextFacade]_vars

\* ------------------------------------------------------------------------
\* _synthesize_augmented_schema alone, on the schemas of the dialects
\* ------------------------------------------------------------------------

\* whether a second table follows the users table, and how its name is quoted
SecondTables == {"none", "bare", "bracket"}

\* the columns of the users table: one plain name and two names that begin
\* with a constraint keyword
ColumnNames == {Status, KeyId, Checked}

\* the first word of a constraint text
FirstWord(text) == SubSeq(text, 1, WordEnd(text, 1))

\* the lines of a DDL: the users table with one column and one constraint,
\* then, after two empty lines, the table named order with a column status
SynthDdlLines(table_style, column_style, column, constraint, second) ==
    <<CreateTableLine(table_style, Users),
      ColumnLine(column_style, column, Varchar50, FALSE),
      ConstraintLine(constraint), <<")">>>> \o
    (IF second = "none" THEN <<>>
     ELSE <<<<>>, <<>>, CreateTableLine(second, OrderTable),
            ColumnLine("bare", Status, TextType, TRUE), <<")">>>>)

\* what each of those lines is, and the table.column of a column line
SynthDdlTruth(column, second) ==
    <<[kind |-> "table", key |-> <<>>],
      [kind |-> "column", key |-> Users \o <<".">> \o column],
      [kind |-> "constraint", key |-> <<>>],
      [kind |-> "other", key |-> <<>>]>> \o
    (IF second = "none" THEN <<>>
     ELSE <<[kind |-> "other", key |-> <<>>], [kind |-> "other", key |-> <<>>],
            [kind |-> "table", key |-> <<>>],
            [kind |-> "column", key |-> OrderTable \o <<".">> \o Status],
            [kind |-> "other", key |-> <<>>]>>)

\* the entry of the column of the users table: none, or one of the entries
\* fetch_distinct_values gives, or a list over the display cap
SynthEntries ==
    {[type |-> "absent", value |-> <<>>],
     [type |-> "list", value |-> ManyValues]} \cup ColumnSamples

\* the mapping: the entry of the column, and with keyword_key an entry under
\* users.<first word of the constraint line>
SynthFetched(column, constraint, entry, keyword_key) ==
    LET column_key == Users \o <<".">> \o column
        trap_key == Users \o <<".">> \o FirstWord(constraint)
        keys == (IF entry.type = "absent" THEN {} ELSE {column_key}) \cup
                (IF keyword_key THEN {trap_key} ELSE {})
    IN  [k \in keys |-> IF k = column_key /\ entry.type # "absent" THEN entry
                        ELSE [type |-> "list", value |-> DistinctValues]]

\* the arguments of one call: the text as get_table_info() gives it, with a
\* newline before the DDL and two after it
SynthArgs ==
    {[op |-> "synthesize",
      raw_schema |-> <<"\n">> \o Join(SynthDdlLines(ts, cs, c, k, t)) \o
                     <<"\n", "\n">>,
      fetched_values |-> SynthFetched(c, k, e, kk),
      truth |-> SynthDdlTruth(c, t)] :
        ts \in QuoteStyles, cs \in QuoteStyles, c \in ColumnNames,
        k \in ConstraintTexts, t \in SecondTables, e \in SynthEntries,
        kk \in BOOLEAN}

InitSynth ==
    /\ SQLIdle
    /\ BIIdle
    /\ VisIdle
    /\ rerun = FALSE
    /\ CtxIdle
    /\ CacheIdle
    /\ callArgs \in SynthArgs
    /\ callResult = NoReturn

\* the call _synthesize_augmented_schema(raw_schema, fetched_values)
Synthesize ==
    /\ callArgs.op = "synthesize"
    /\ ~callResult.done
    /\ callResult' = [done |-> TRUE, raised |-> "",
                      value |-> SynthesizeAugmentedSchema(callArgs.raw_schema,
                                    callArgs.fetched_values)]
    /\ UNCHANGED callArgs
    /\ UNCHANGED notFn

NextSynth == Synthesize

SpecSynth == InitSynth /\ [][NextSynth]_vars

\* ------------------------------------------------------------------------
\* DatabaseService.fetch_distinct_values alone
\* ------------------------------------------------------------------------

\* DatabaseService.CARDINALITY_LIMIT
CardinalityLimit == 25

\* the requests: table and column of the two columns of the users table and
\* of a column of a table the database does not have
FetchItems ==
    {[table |-> Users, column |-> Status], [table |-> Users, column |-> Id],
     [table |-> Orders, column |-> State]}

\* f"{table_name}.{column_name}"
FetchKey(item) == item.table \o <<".">> \o item.column

\* the database: for each column of the users table the number of its
\* distinct values, or -1 when the statement on it fails
FetchDatabases ==
    [{FetchKey(i) : i \in {j \in FetchItems : j.table = Users}} ->
        {-1, 2, CardinalityLimit, CardinalityLimit + 1, CardinalityLimit + 5}]

\* connection.execute(select(column).distinct().limit(limit)).fetchall() on a
\* column of n distinct values: the first column of the rows
FetchAll(n, limit) ==
    [i \in 1..(IF n < limit THEN n ELSE limit) |->
        [type |-> "int", text |-> ToString(i)]]

\* a test that lets a result of limit rows through
IsTooMany_OverLimit(rows, limit) ==
    Len(rows) > limit

\* if len(result) >= limit
IsTooMany(rows, limit) ==
    Len(rows) >= limit

\* the body of the loop for one item: the try block and its except clause.
\* Table(...) raises for a table that does not exist, the statement raises
\* for a column marked -1
FetchEntry(db, item) ==
    LET limit == CardinalityLimit + 1
        rows == FetchAll(db[FetchKey(item)], limit)
    IN  IF FetchKey(item) \notin DOMAIN db \/ db[FetchKey(item)] = -1
        THEN [type |-> "str", value |-> <<"ERROR_FETCHING">>]
        ELSE IF IsTooMany(rows, limit)
        THEN [type |-> "str", value |-> <<"TOO_MANY_VALUES">>]
        ELSE [type |-> "list", value |-> rows]

\* the loop of fetch_distinct_values over tables_and_columns
RECURSIVE FetchLoop(_, _, _)
FetchLoop(db, tables_and_columns, distinct_values) ==
    IF tables_and_columns = <<>> THEN distinct_values
    ELSE LET item == Head(tables_and_columns)
         IN  FetchLoop(db, Tail(tables_and_columns),
                 [k \in DOMAIN distinct_values \cup {FetchKey(item)} |->
                     IF k = FetchKey(item) THEN FetchEntry(db, item)
                     ELSE distinct_values[k]])

\* fetch_distinct_values(tables_and_columns): self._engine.connect() is
\* outside the try block of the loop
FetchDistinctValues(db, connect_raises, tables_and_columns) ==
    IF connect_raises
    THEN [done |-> TRUE, raised |-> "OperationalError", value |-> <<>>]
    ELSE [done |-> TRUE, raised |-> "",
          value |-> FetchLoop(db, tables_and_columns, <<>>)]

\* the longest list of items asked in one call
MaxItems == 3

\* the lists of at most n items
RECURSIVE ItemLists(_)
ItemLists(n) ==
    IF n = 0 THEN {<<>>}
    ELSE ItemLists(n - 1) \cup
         {Append(l, i) : l \in {x \in ItemLists(n - 1) : Len(x) = n - 1},
                         i \in FetchItems}

FetchArgs ==
    {[op |-> "fetch", db |-> db, connect_raises |-> c,
      tables_and_columns |-> l] :
        db \in FetchDatabases, c \in BOOLEAN, l \in ItemLists(MaxItems)}

InitFetch ==
    /\ SQLIdle
    /\ BIIdle
    /\ VisIdle
    /\ rerun = FALSE
    /\ CtxIdle
    /\ CacheIdle
    /\ callArgs \in FetchArgs
    /\ callResult = NoReturn

\* the call fetch_distinct_values(tables_and_columns)
Fetch ==
    /\ callArgs.op = "fetch"
    /\ ~callResult.done
    /\ callResult' = FetchDistinctValues(callArgs.db, callArgs.connect_raises,
                                         callArgs.tables_and_columns)
    /\ UNCHANGED callArgs
    /\ UNCHANGED notFn

NextFetch == Fetch

SpecFetch == InitFetch /\ [][NextFetch]_vars

\* ------------------------------------------------------------------------
\* DatabaseService.validate_sql alone
\* ------------------------------------------------------------------------

KwSelect == <<"S", "E", "L", "E", "C", "T">>
KwExplain == <<"E", "X", "P", "L", "A", "I", "N">>
Unknown == <<"U", "N", "K", "N", "O", "W", "N">>

\* the statements an input is made of
SqlStatements ==
    {<<"S", "E", "L", "E", "C", "T", " ", "a">>,
     <<"s", "e", "l", "e", "c", "t", " ", "b">>,
     <<"D", "R", "O", "P", " ", "T", "A", "B", "L", "E", " ", "t">>,
     <<"I", "N", "S", "E", "R", "T", " ", "I", "N", "T", "O", " ", "t", " ", "V", "A", "L", "U", "E", "S", " ", "(", "1", ")">>}

\* the first keywords sqlparse gives a statement type for (DML and DDL)
StatementTypes ==
    {KwSelect, <<"I", "N", "S", "E", "R", "T">>,
     <<"U", "P", "D", "A", "T", "E">>, <<"D", "E", "L", "E", "T", "E">>,
     <<"D", "R", "O", "P">>, KwCreate,
     <<"A", "L", "T", "E", "R">>}

\* sqlparse.parse(sql): the statements of the text, each one ending with
\* its semicolon; no statement for the empty text
RECURSIVE SqlParse(_)
SqlParse(sql) ==
    LET semicolons == {i \in DOMAIN sql : sql[i] = ";"}
        first == CHOOSE i \in semicolons : \A j \in semicolons : i <= j
    IN  IF sql = <<>> THEN <<>>
        ELSE IF semicolons = {} THEN <<sql>>
        ELSE <<SubSeq(sql, 1, first)>> \o
             SqlParse(SubSeq(sql, first + 1, Len(sql)))

\* Statement.get_type(): the first word of the statement in upper case when
\* it is a DML or DDL keyword, else UNKNOWN
GetType(statement) ==
    LET text == LStrip(statement)
        word == SubSeq(text, 1, WordEnd(text, 1))
        upper == [i \in DOMAIN word |-> UpperChar(word[i])]
    IN  IF upper \in StatementTypes THEN upper ELSE Unknown

\* validate_sql(sql_query): the type test on the first statement, then
\* EXPLAIN of the whole text on a connection; value is the list of the
\* statements sent to the database
ValidateSql(sql_query, explain_raises) ==
    LET statements == SqlParse(sql_query)
        sent == <<KwExplain \o <<" ">> \o sql_query>>
    IN  IF statements = <<>>
        THEN [done |-> TRUE, raised |-> "ValueError", value |-> <<>>]
        ELSE IF GetType(statements[1]) # KwSelect
        THEN [done |-> TRUE, raised |-> "ValueError", value |-> <<>>]
        ELSE IF explain_raises
        THEN [done |-> TRUE, raised |-> "ValueError", value |-> sent]
        ELSE [done |-> TRUE, raised |-> "", value |-> sent]

\* the most statements in one input
MaxStatements == 2

\* the lists of at most n statements
RECURSIVE StatementLists(_)
StatementLists(n) ==
    IF n = 0 THEN {<<>>}
    ELSE StatementLists(n - 1) \cup
         {Append(l, st) : l \in {x \in StatementLists(n - 1) : Len(x) = n - 1},
                          st \in SqlStatements}

\* "; ".join(statements)
RECURSIVE JoinStatements(_)
JoinStatements(statements) ==
    IF statements = <<>> THEN <<>>
    ELSE IF Len(statements) = 1 THEN statements[1]
    ELSE statements[1] \o <<";", " ">> \o JoinStatements(Tail(statements))

\* the inputs: the statements, a space before them or not, a semicolon after
\* them or not, and whether the database rejects the EXPLAIN
ValidateArgs ==
    {[op |-> "validate_sql", statements |-> l,
      sql_query |-> (IF lead THEN <<" ">> ELSE <<>>) \o JoinStatements(l) \o
                    (IF semi THEN <<";">> ELSE <<>>),
      explain_raises |-> e] :
        l \in StatementLists(MaxStatements), lead \in BOOLEAN,
        semi \in BOOLEAN, e \in BOOLEAN}

InitValidate ==
    /\ SQLIdle
    /\ BIIdle
    /\ VisIdle
    /\ rerun = FALSE
    /\ CtxIdle
    /\ CacheIdle
    /\ callArgs \in ValidateArgs
    /\ callResult = NoReturn

\* the call validate_sql(sql_query)
Validate ==
    /\ callArgs.op = "validate_sql"
    /\ ~callResult.done
    /\ callResult' = ValidateSql(callArgs.sql_query, callArgs.explain_raises)
    /\ UNCHANGED callArgs
    /\ UNCHANGED notFn

NextValidate == Validate

SpecValidate == InitValidate /\ [][NextValidate]_vars

\* ------------------------------------------------------------------------
\* The cache providers
\* ------------------------------------------------------------------------

CacheProviders == {"memory", "file"}

CacheKeys == {<<"k">>, <<"k", "1">>}

\* the values stored: the empty string, a text with quotes, a text with a
\* backslash and a line break
CacheValues == {<<>>, <<"{", "\"", "a", "\"", ":", " ", "1", "}">>, <<"a", "\\", "b", "\n", "c">>}

Return(value) == [done |-> TRUE, raised |-> "", value |-> value]

Raise(kind) == [done |-> TRUE, raised |-> kind, value |-> <<>>]

\* InMemoryCacheProvider.get
MemGet(cache, key) == Return(CacheGet(cache, key))

\* InMemoryCacheProvider.set
MemSet(cache, key, value) == CacheSet(cache, key, value)

\* a file name that is the same for every key
KeyToPath_OneFile(key) ==
    <<"sha256">> \o <<".", "j", "s", "o", "n">>

\* FileSystemCacheProvider._key_to_path: the digest of the key and ".json"
KeyToPath(key) ==
    Sha256(key) \o <<".", "j", "s", "o", "n">>

\* a JSON value: its kind, the text of a string or number, the members of an
\* object or the items of an array
JsonValue(kind, text, members) ==
    [kind |-> kind, text |-> text, members |-> members]

JsonError == [ok |-> FALSE, end |-> 0, value |-> JsonValue("error", <<>>, <<>>)]

JsonOk(end, value) == [ok |-> TRUE, end |-> end, value |-> value]

\* the character an escape sequence of a JSON string stands for
JsonUnescape ==
    [c \in {"\"", "\\", "/", "n", "t"} |->
        CASE c = "n" -> "\n"
          [] c = "t" -> "\t"
          [] OTHER -> c]

\* json.dump of a string: quote, backslash, line break and tab are escaped
RECURSIVE JsonEscape(_)
JsonEscape(value) ==
    IF value = <<>> THEN <<>>
    ELSE (CASE Head(value) = "\"" -> <<"\\", "\"">>
            [] Head(value) = "\\" -> <<"\\", "\\">>
            [] Head(value) = "\n" -> <<"\\", "n">>
            [] Head(value) = "\t" -> <<"\\", "t">>
            [] OTHER -> <<Head(value)>>) \o JsonEscape(Tail(value))

Content == <<"c", "o", "n", "t", "e", "n", "t">>

\* json.dump({"content": value}, f, indent=2)
JsonDump(value) ==
    <<"{", "\n", " ", " ", "\"">> \o Content \o <<"\"", ":", " ", "\"">> \o
    JsonEscape(value) \o <<"\"", "\n", "}">>

\* text[i .. ] begins with word
HasAt(text, i, word) ==
    /\ i + Len(word) - 1 <= Len(text)
    /\ SubSeq(text, i, i + Len(word) - 1) = word

\* the last position of the run of digits that starts at position i
RECURSIVE DigitsEnd(_, _)
DigitsEnd(text, i) ==
    IF i <= Len(text) /\ text[i] \in Digits THEN DigitsEnd(text, i + 1)
    ELSE i - 1

\* a JSON string whose first character is at position i, the opening quote
\* before it: up to the closing quote, escapes decoded; a raw line break or
\* tab, an unknown escape or the end of the text is an error
RECURSIVE ScanString(_, _, _)
ScanString(text, i, acc) ==
    IF i > Len(text) THEN JsonError
    ELSE IF text[i] = "\"" THEN JsonOk(i, JsonValue("string", acc, <<>>))
    ELSE IF text[i] = "\\"
    THEN IF i + 1 > Len(text) \/ text[i + 1] \notin DOMAIN JsonUnescape
         THEN JsonError
         ELSE ScanString(text, i + 2, Append(acc, JsonUnescape[text[i + 1]]))
    ELSE IF text[i] \in {"\n", "\t"} THEN JsonError
    ELSE ScanString(text, i + 1, Append(acc, text[i]))

\* the JSON decoder: the value that starts at position i, the members of an
\* object from position i, the items of an array from position i
RECURSIVE ParseValue(_, _)
RECURSIVE ParseMembers(_, _, _)
RECURSIVE ParseItems(_, _, _)
ParseValue(text, i) ==
    IF i > Len(text) THEN JsonError
    ELSE IF text[i] = "\"" THEN ScanString(text, i + 1, <<>>)
    ELSE IF text[i] = "{"
    THEN LET j == SpacesEnd(text, i + 1) + 1
         IN  IF j <= Len(text) /\ text[j] = "}"
             THEN JsonOk(j, JsonValue("object", <<>>, <<>>))
             ELSE ParseMembers(text, j, <<>>)
    ELSE IF text[i] = "["
    THEN LET j == SpacesEnd(text, i + 1) + 1
         IN  IF j <= Len(text) /\ text[j] = "]"
             THEN JsonOk(j, JsonValue("array", <<>>, <<>>))
             ELSE ParseItems(text, j, <<>>)
    ELSE IF text[i] \in Digits
    THEN JsonOk(DigitsEnd(text, i),
                JsonValue("number", SubSeq(text, i, DigitsEnd(text, i)), <<>>))
    ELSE IF HasAt(text, i, <<"n", "u", "l", "l">>)
    THEN JsonOk(i + 3, JsonValue("null", <<>>, <<>>))
    ELSE IF HasAt(text, i, <<"t", "r", "u", "e">>)
    THEN JsonOk(i + 3, JsonValue("true", <<>>, <<>>))
    ELSE IF HasAt(text, i, <<"f", "a", "l", "s", "e">>)
    THEN JsonOk(i + 4, JsonValue("false", <<>>, <<>>))
    ELSE JsonError

ParseMembers(text, i, members) ==
    LET key == ScanString(text, i + 1, <<>>)
        colon == SpacesEnd(text, key.end + 1) + 1
        member == ParseValue(text, SpacesEnd(text, colon + 1) + 1)
        next == SpacesEnd(text, member.end + 1) + 1
        added == [k \in DOMAIN members \cup {key.value.text} |->
                     IF k = key.value.text THEN member.value ELSE members[k]]
    IN  IF i > Len(text) \/ text[i] # "\"" THEN JsonError
        ELSE IF ~key.ok THEN JsonError
        ELSE IF colon > Len(text) \/ text[colon] # ":" THEN JsonError
        ELSE IF ~member.ok THEN JsonError
        ELSE IF next > Len(text) THEN JsonError
        ELSE IF text[next] = "}"
        THEN JsonOk(next, JsonValue("object", <<>>, added))
        ELSE IF text[next] = ","
        THEN ParseMembers(text, SpacesEnd(text, next + 1) + 1, added)
        ELSE JsonError

ParseItems(text, i, items) ==
    LET item == ParseValue(text, i)
        next == SpacesEnd(text, item.end + 1) + 1
    IN  IF ~item.ok THEN JsonError
        ELSE IF next > Len(text) THEN JsonError
        ELSE IF text[next] = "]"
        THEN JsonOk(next, JsonValue("array", <<>>, Append(items, item.value)))
        ELSE IF text[next] = ","
        THEN ParseItems(text, SpacesEnd(text, next + 1) + 1,
                        Append(items, item.value))
        ELSE JsonError

\* json.load(f): the one value of the text, white space around it; anything
\* else is a JSONDecodeError
JsonLoad(text) ==
    LET parsed == ParseValue(text, SpacesEnd(text, 1) + 1)
    IN  IF parsed.ok /\ SpacesEnd(text, parsed.end + 1) = Len(text)
        THEN parsed.value
        ELSE JsonError.value

\* the Python value of a member: str for a string, None for null
PyValue(value) ==
    CASE value.kind = "string" -> value.text
      [] value.kind = "null" -> None
      [] value.kind = "number" -> <<"<int>">>
      [] value.kind \in {"true", "false"} -> <<"<bool>">>
      [] value.kind = "array" -> <<"<list>">>
      [] OTHER -> <<"<dict>">>

\* FileSystemCacheProvider.get: None when there is no file; JSONDecodeError
\* and KeyError are caught and give None; subscripting a value that is not a
\* dict with "content" raises TypeError, which is not caught
FsGet(files, key) ==
    LET cache_path == KeyToPath(key)
        loaded == JsonLoad(files[cache_path])
    IN  IF cache_path \notin DOMAIN files THEN Return(None)
        ELSE IF loaded.kind = "error" THEN Return(None)
        ELSE IF loaded.kind = "object"
        THEN IF Content \in DOMAIN loaded.members
             THEN Return(PyValue(loaded.members[Content]))
             ELSE Return(None)
        ELSE Raise("TypeError")

\* how a write can go: all of it, an IOError of open(), an IOError while the
\* text is written
WriteFaults == {"none", "open", "write"}

\* what is in the file after open(cache_path, "w") and json.dump
Written(value, fault) ==
    IF fault = "none" THEN {JsonDump(value)}
    ELSE {<<>>, SubSeq(JsonDump(value), 1, Len(JsonDump(value)) - 1)}

\* FileSystemCacheProvider.set: an IOError is logged, nothing is raised
FsSet(files, key, written, fault) ==
    IF fault = "open" THEN files
    ELSE [f \in DOMAIN files \cup {KeyToPath(key)} |->
             IF f = KeyToPath(key) THEN written ELSE files[f]]

\* the bookkeeping of the last set() of every key: its value, and the keys
\* whose last write met an IOError
NoSets == [value |-> <<>>, failed |-> {}]

InitCache ==
    /\ SQLIdle
    /\ BIIdle
    /\ VisIdle
    /\ rerun = FALSE
    /\ CtxIdle
    /\ cacheMem = <<>>
    /\ cacheFiles = <<>>
    /\ cacheLast = NoSets
    /\ callArgs \in {[op |-> "new", provider |-> p] : p \in CacheProviders}
    /\ callResult = NoReturn

\* cache.set(key, value) on an InMemoryCacheProvider
MemSetCall ==
    \E key \in CacheKeys, value \in CacheValues :
        /\ callArgs.provider = "memory"
        /\ callArgs.op \in {"new", "get", "set"}
        /\ cacheMem' = MemSet(cacheMem, key, value)
        /\ cacheLast' = [cacheLast EXCEPT !.value = CacheSet(@, key, value)]
        /\ callArgs' = [op |-> "set", provider |-> "memory", key |-> key,
                        value |-> value]
        /\ callResult' = Return(None)
        /\ UNCHANGED cacheFiles
        /\ UNCHANGED <<sqlVars, biVars, visVars, rerun, ctxVars>>

\* cache.get(key) on an InMemoryCacheProvider
MemGetCall ==
    \E key \in CacheKeys :
        /\ callArgs.provider = "memory"
        /\ callArgs.op \in {"new", "get", "set"}
        /\ callArgs' = [op |-> "get", provider |-> "memory", key |-> key,
                        value |-> None]
        /\ callResult' = MemGet(cacheMem, key)
        /\ UNCHANGED cacheVars
        /\ UNCHANGED <<sqlVars, biVars, visVars, rerun, ctxVars>>

\* cache.set(key, value) on a FileSystemCacheProvider
FsSetCall ==
    \E key \in CacheKeys, value \in CacheValues, fault \in WriteFaults :
        \E written \in Written(value, fault) :
            /\ callArgs.provider = "file"
            /\ callArgs.op \in {"new", "get", "set"}
            /\ cacheFiles' = FsSet(cacheFiles, key, written, fault)
            /\ cacheLast' =
                 [value |-> CacheSet(cacheLast.value, key, value),
                  failed |-> IF fault = "none" THEN cacheLast.failed \ {key}
                             ELSE cacheLast.failed \cup {key}]
            /\ callArgs' = [op |-> "set", provider |-> "file", key |-> key,
                            value |-> value]
            /\ callResult' = Return(None)
            /\ UNCHANGED cacheMem
            /\ UNCHANGED <<sqlVars, biVars, visVars, rerun, ctxVars>>

\* cache.get(key) on a FileSystemCacheProvider
FsGetCall ==
    \E key \in CacheKeys :
        /\ callArgs.provider = "file"
        /\ callArgs.op \in {"new", "get", "set"}
        /\ callArgs' = [op |-> "get", provider |-> "file", key |-> key,
                        value |-> None]
        /\ callResult' = FsGet(cacheFiles, key)
        /\ UNCHANGED cacheVars
        /\ UNCHANGED <<sqlVars, biVars, visVars, rerun, ctxVars>>

NextCache ==
    \/ MemSetCall
    \/ MemGetCall
    \/ FsSetCall
    \/ FsGetCall

SpecCache == InitCache /\ [][NextCache]_vars

\* the files a cache directory can hold for a key, by what they are
CacheFileTexts ==
    {[kind |-> "not_json", text |-> <<>>],
     [kind |-> "not_json", text |-> <<"{", "\n", " ", " ", "\"", "c", "o", "n", "t", "e", "n", "t", "\"", ":", " ", "\"", "a">>],
     [kind |-> "not_json", text |-> <<"c", "o", "n", "t", "e", "n", "t">>],
     [kind |-> "entry", text |-> JsonDump(<<"a">>)],
     [kind |-> "no_content", text |-> <<"{", "}">>],
     [kind |-> "no_content", text |-> <<"{", "\"", "v", "a", "l", "u", "e", "\"", ":", " ", "\"", "a", "\"", "}">>],
     [kind |-> "not_object", text |-> <<"[", "]">>],
     [kind |-> "not_object", text |-> <<"[", "\"", "c", "o", "n", "t", "e", "n", "t", "\"", "]">>],
     [kind |-> "not_object", text |-> <<"\"", "c", "o", "n", "t", "e", "n", "t", "\"">>],
     [kind |-> "not_object", text |-> <<"1">>],
     [kind |-> "not_object", text |-> <<"n", "u", "l", "l">>]}

\* what the file of a key is: "missing", or the kind of its text
FileKind(files, key) ==
    IF KeyToPath(key) \notin DOMAIN files THEN "missing"
    ELSE (CHOOSE f \in CacheFileTexts : f.text = files[KeyToPath(key)]).kind

\* a cache directory found as it is: every key has no file or one of the
\* files above
InitCacheFiles ==
    /\ SQLIdle
    /\ BIIdle
    /\ VisIdle
    /\ rerun = FALSE
    /\ CtxIdle
    /\ cacheMem = <<>>
    /\ \E keys \in SUBSET CacheKeys :
           cacheFiles \in [{KeyToPath(k) : k \in keys} ->
                              {f.text : f \in CacheFileTexts}]
    /\ cacheLast = NoSets
    /\ callArgs = [op |-> "new", provider |-> "file"]
    /\ callResult = NoReturn

NextCacheFiles == FsGetCall

SpecCacheFiles == InitCacheFiles /\ [][NextCacheFiles]_vars

\* ------------------------------------------------------------------------
\* The conditional edges of the SQL workflow graph alone
\* ------------------------------------------------------------------------

\* largest attempt cap and reflection cap of the states given to the edges
MaxCounter == 3

\* the states should_retry_node is given after execute_sql: a generation of
\* any status, an execution error stored or not, the attempt counter
\* anywhere from 1 to the cap
RetryStates ==
    {[IdleState EXCEPT
          !.generation_result = [NoGeneration EXCEPT !.status = st],
          !.error = e, !.current_attempt = a, !.max_attempts = m] :
        st \in {"success", "clarification", "error"},
        e \in {None, <<"Error executing SQL: ", "Database execution failed: ",
                       "no such column">>},
        m \in 1..MaxCounter, a \in 1..MaxCounter}

\* the states decide_after_reflection_node is given after reflection_node:
\* no suggestion, an empty one or a text; the reflection counter from 1, at,
\* under and over the cap
ReflectionStates ==
    {[IdleState EXCEPT
          !.review = r, !.current_reflection_attempt = a,
          !.max_reflection_attempts = m] :
        r \in {None, <<>>, <<"use a JOIN">>},
        m \in 0..MaxCounter, a \in 1..MaxCounter + 1}

EdgeArgs ==
    {[op |-> "should_retry_node", state |-> s] :
        s \in {x \in RetryStates : x.current_attempt <= x.max_attempts}}
    \cup {[op |-> "decide_after_reflection_node", state |-> s] :
             s \in ReflectionStates}

InitEdges ==
    /\ SQLIdle
    /\ BIIdle
    /\ VisIdle
    /\ rerun = FALSE
    /\ CtxIdle
    /\ CacheIdle
    /\ callArgs \in EdgeArgs
    /\ callResult = NoReturn

\* the call should_retry_node(state)
ShouldRetry ==
    /\ callArgs.op = "should_retry_node"
    /\ ~callResult.done
    /\ callResult' = Return(<<ShouldRetryNode(callArgs.state)>>)
    /\ UNCHANGED callArgs
    /\ UNCHANGED notFn

\* the call decide_after_reflection_node(state)
DecideAfterReflection ==
    /\ callArgs.op = "decide_after_reflection_node"
    /\ ~callResult.done
    /\ callResult' = Return(<<DecideAfterReflectionNode(callArgs.state)>>)
    /\ UNCHANGED callArgs
    /\ UNCHANGED notFn

NextEdges ==
    \/ ShouldRetry
    \/ DecideAfterReflection

SpecEdges == InitEdges /\ [][NextEdges]_vars

\* ------------------------------------------------------------------------
\* Consecutive run() calls on one object
\* ------------------------------------------------------------------------

\* one of the three objects is constructed and run() is called on it again
\* and again; the objects share no state, so a behaviour drives one of them
InitRuns ==
    Init

NextRuns ==
    \/ (BIIdle /\ VisIdle /\ Next)
    \/ (SQLIdle /\ VisIdle /\ NextBI)
    \/ (SQLIdle /\ BIIdle /\ NextVis)

SpecRuns == InitRuns /\ [][NextRuns]_vars

\* ------------------------------------------------------------------------
\* Observations on the call log of a run
\* ------------------------------------------------------------------------

CallsOf(op) == {i \in DOMAIN calls : calls[i].op = op}

NumCalls(op) == Cardinality(CallsOf(op))

LastCall == calls[Len(calls)]

Ended == pc \in {"done", "raised"}

Running == pc \in {"generate_sql", "reflection_node", "execute_sql",
                   "format_output"}

\* s ends with suffix
EndsWith(s, suffix) ==
    /\ Len(suffix) <= Len(s)
    /\ SubSeq(s, Len(s) - Len(suffix) + 1, Len(s)) = suffix

\* the run went through a failed execution and nothing was called after it
EndedOnFailedExecution ==
    /\ calls # <<>>
    /\ LastCall.op = "execute"
    /\ LastCall.out = "RuntimeError"

\* ------------------------------------------------------------------------
\* C1
\* ------------------------------------------------------------------------

C1_ExecuteBoundedLastError ==
    auto_execute =>
        /\ NumCalls("execute") <= cfg.max_attempts
        /\ (pc = "done" /\ EndedOnFailedExecution)
           => /\ result.kind = "SQLResult"
              /\ result.status = "error"
              /\ EndsWith(result.error_message, LastCall.detail)
              /\ \A i \in CallsOf("execute") : calls[i].out = "RuntimeError"

\* the steps a run can still take: 5 for each retry and each regeneration that
\* the counters still allow, plus the nodes left on the way to the end
StepsLeft ==
    LET Max0(n) == IF n > 0 THEN n ELSE 0
        retries == Max0(state.max_attempts - state.current_attempt
                        - (IF pc = "generate_sql" THEN 1 ELSE 0))
        regenerations == Max0(state.max_reflection_attempts - 1
                              - state.current_reflection_attempt)
        nodes == CASE pc = "generate_sql" -> 4
                   [] pc = "reflection_node" -> 3
                   [] pc = "execute_sql" -> 2
                   [] pc = "format_output" -> 1
                   [] OTHER -> 0
    IN  5 * (retries + regenerations) + nodes

C2_PlanOnlyNeverExecutes ==
    ~auto_execute =>
        \A i \in DOMAIN calls : calls[i].op \in {"generate", "reflect", "validate"}

\* ------------------------------------------------------------------------
\* C3
\* ------------------------------------------------------------------------

\* C3: the number of GENERATE calls of a run never exceeds the attempt cap of
\* the run, max_attempts in execute mode and 1 in plan-only mode, where a
\* finished plan was generated exactly once.
C3_GenerateWithinCap ==
    /\ NumCalls("generate") <= (IF auto_execute THEN cfg.max_attempts ELSE 1)
    /\ (~auto_execute /\ pc = "done") => NumCalls("generate") = 1

\* ------------------------------------------------------------------------
\* C4
\* ------------------------------------------------------------------------

\* C4: a plan-only run whose generation has status success calls validate_sql
\* exactly once, on the generated SQL, as its last call (no regeneration and no
\* second validation follow), and returns an SQLPlan that has status success
\* and is_validated = true iff validate_sql did not raise, and otherwise has
\* status error, is_validated = false, the attempted SQL and the message.
C4_PlanValidatedOnce ==
    (~auto_execute /\ Ended /\ state.generation_result.status = "success") =>
        /\ NumCalls("validate") = 1
        /\ LastCall.op = "validate"
        /\ LastCall.arg = state.generation_result.query
        /\ pc = "done"
        /\ result.kind = "SQLPlan"
        /\ result.sql_query = state.generation_result.query
        /\ IF LastCall.out = "ok"
           THEN result.status = "success" /\ result.is_validated
           ELSE /\ result.status = "error"
                /\ ~result.is_validated
                /\ result.error_message = LastCall.detail

\* ------------------------------------------------------------------------
\* C5
\* ------------------------------------------------------------------------

\* the reviewer answered the i-th call with "proceed" or without a suggestion
Approves(i) ==
    /\ calls[i].op = "reflect"
    /\ (calls[i].out = "proceed" \/ calls[i].detail = None)

\* C5: in the Reflection variant, after a REFLECT step in which the reviewer
\* returned decision = proceed (with or without suggestions) or no suggestion,
\* the workflow is at EXECUTE with the SQL that was reviewed: the next call is
\* the execution of that SQL and no GENERATE comes in between.
C5_ProceedGoesToExecute ==
    \A i \in DOMAIN calls :
        Approves(i) =>
            IF i = Len(calls)
            THEN pc \in {"execute_sql", "raised"}
            ELSE /\ calls[i + 1].op = "execute"
                 /\ calls[i + 1].arg = Strip(calls[i].arg)

\* ------------------------------------------------------------------------
\* C6
\* ------------------------------------------------------------------------

\* C6: a GENERATE step of status clarification or error is the last call of
\* its run (no execute, validate, REFLECT or GENERATE call follows), the run
\* returns, and its result has status clarification_needed with the LLM's
\* clarification question, or status error, in execute and in plan-only mode.
C6_GenerationFailureIsTerminal ==
    \A i \in DOMAIN calls :
        (calls[i].op = "generate" /\ calls[i].out \in {"clarification", "error"})
        => /\ i = Len(calls)
           /\ pc \in {"execute_sql", "format_output", "done"}
           /\ state.generation_result.status = calls[i].out
           /\ pc = "done" =>
                /\ result.kind = (IF auto_execute THEN "SQLResult" ELSE "SQLPlan")
                /\ IF calls[i].out = "clarification"
                   THEN /\ result.status = "clarification_needed"
                        /\ result.clarification_question =
                               state.generation_result.clarification_question
                   ELSE result.status = "error"

\* witness of C6: runs that returned after a clarification with a question,
\* the generation having followed a failed execution
C6_Witness ==
    /\ pc = "done"
    /\ LastCall.op = "generate"
    /\ LastCall.out = "clarification"
    /\ NumCalls("execute") = 1
    /\ result.clarification_question = <<"which column?">>

\* ------------------------------------------------------------------------
\* C7
\* ------------------------------------------------------------------------

IsSimple == variant \in {"agent", "simple"}

\* the last call of the run is an execution that returned a table
EndedOnSuccessfulExecution ==
    /\ calls # <<>>
    /\ LastCall.op = "execute"
    /\ LastCall.out = "ok"

\* C7: in execute mode with the Simple variant, when the execution of attempt
\* k succeeds after the executions of attempts 1..k-1 failed, the run ends
\* right after it: k GENERATE and k execute calls were made, the stored error
\* is cleared, and the SQLResult has status success with the table and the SQL
\* of attempt k.
C7_SuccessOnAttemptK ==
    (IsSimple /\ auto_execute /\ EndedOnSuccessfulExecution) =>
        LET k == state.current_attempt
        IN  /\ pc \in {"format_output", "done"}
            /\ k <= cfg.max_attempts
            /\ NumCalls("generate") = k
            /\ NumCalls("execute") = k
            /\ \A i \in CallsOf("execute") :
                   i < Len(calls) => calls[i].out = "RuntimeError"
            /\ state.error = None
            /\ pc = "done" =>
                 /\ result.kind = "SQLResult"
                 /\ result.status = "success"
                 /\ result.dataframe = LastCall.detail
                 /\ result.sql_query = LastCall.arg
                 /\ LastCall.arg = Strip(state.generation_result.query)

\* witness of C7: a Simple run returned the table of its second attempt, whose
\* query had to be stripped, after the first attempt failed
C7_Witness ==
    /\ IsSimple
    /\ auto_execute
    /\ pc = "done"
    /\ EndedOnSuccessfulExecution
    /\ state.current_attempt = 2
    /\ result.sql_query = <<"SELECT b">>
    /\ result.dataframe = <<"row1", "row2">>

\* ------------------------------------------------------------------------
\* C8
\* ------------------------------------------------------------------------

\* C8: every SQLResult of status success returned by an execute-mode run has a
\* result table (possibly empty) and a non-empty sql_query, the SQL whose
\* execution produced that table.
C8_SuccessHasTableAndQuery ==
    (auto_execute /\ pc = "done" /\ result.status = "success") =>
        /\ result.dataframe # None
        /\ result.sql_query # None
        /\ result.sql_query # <<>>
        /\ EndedOnSuccessfulExecution
        /\ LastCall.arg = result.sql_query
        /\ LastCall.detail = result.dataframe

\* ------------------------------------------------------------------------
\* Claims on the BIOrchestrator (SpecBI)
\* ------------------------------------------------------------------------

\* the calls of the visualization agent in this turn
VisCalls == {i \in DOMAIN biCalls : biCalls[i].op = "vis_agent"}

\* C9: whatever the router answers, BIOrchestrator.run ends after at most
\* MaxSteps THINK/ACT iterations and returns a BIResult: it never ends by
\* raising, and a turn that ended has a result.
C9_TerminatesWithResult ==
    /\ biPc # "raised"
    /\ Len(biState.intermediate_steps) <= MaxSteps
    /\ biPc = "done" => biResult # NoBIResult

\* C10: the visualization agent is called only when the SQL result stored in
\* this turn has status success; when the tool node runs a visualization
\* action without such a result it calls nothing, stores no visualization
\* and records an "Error: ..." observation in the scratchpad.
C10_VisualizationNeedsSuccessfulSql ==
    /\ [](\A i \in VisCalls : biCalls[i].stored = "success")
    /\ [][(/\ biPc = "execute_tool"
           /\ biSteps' = biSteps + 1
           /\ LastStep(biState).action = "visualization_agent"
           /\ ~(biState.sql_result # NoResult
                /\ biState.sql_result.status = "success"))
          => (/\ biCalls' = biCalls
              /\ biState'.visualization_result = biState.visualization_result
              /\ Len(biState'.intermediate_steps) = Len(biState.intermediate_steps)
              /\ Head(LastStep(biState').observation) = "Error: ")]_vars

\* the router chose the visualization although the SQL agent had returned an
\* error in this turn; the tool node has run and recorded the error
C10_Witness ==
    /\ biPc = "think"
    /\ Len(biState.intermediate_steps) = 2
    /\ biState.sql_result.status = "error"
    /\ LastStep(biState).action = "visualization_agent"
    /\ LastStep(biState).observation =
           <<"Error: ",
             "Cannot run visualization agent without a successful SQL result.">>
    /\ VisCalls = {}
    /\ biState.visualization_result = NoVisualization

\* the tool node has run on the last scratchpad entry
AfterAct ==
    /\ biPc \in {"think", "format_output", "done"}
    /\ biSteps > 0

\* C11: every THINK appends exactly one scratchpad entry with an empty
\* observation, and every ACT replaces only the observation of the last
\* entry, by a non-empty text: after an ACT the scratchpad is as long as the
\* number of THINK steps, no observation is empty, and the earlier entries,
\* and the reasoning and action of the last one, are unchanged.
C11_ScratchpadDiscipline ==
    /\ [](AfterAct =>
            /\ 2 * Len(biState.intermediate_steps) = biSteps
            /\ \A i \in DOMAIN biState.intermediate_steps :
                   biState.intermediate_steps[i].observation # <<>>)
    /\ [][(biPc = "think" /\ biSteps' = biSteps + 1) =>
            /\ Len(biState'.intermediate_steps) =
                   Len(biState.intermediate_steps) + 1
            /\ SubSeq(biState'.intermediate_steps, 1,
                      Len(biState.intermediate_steps)) =
                   biState.intermediate_steps
            /\ LastStep(biState').observation = <<>>]_vars
    /\ [][(biPc = "execute_tool" /\ biSteps' = biSteps + 1) =>
            /\ Len(biState'.intermediate_steps) =
                   Len(biState.intermediate_steps)
            /\ \A i \in DOMAIN biState.intermediate_steps :
                   /\ biState'.intermediate_steps[i].reasoning =
                          biState.intermediate_steps[i].reasoning
                   /\ biState'.intermediate_steps[i].action =
                          biState.intermediate_steps[i].action
                   /\ biState'.intermediate_steps[i].action_args =
                          biState.intermediate_steps[i].action_args
                   /\ i < Len(biState.intermediate_steps) =>
                          biState'.intermediate_steps[i] =
                              biState.intermediate_steps[i]
            /\ LastStep(biState').observation # <<>>]_vars

\* three THINK/ACT iterations done: an SQL error, a refused visualization and
\* a successful SQL run, each with its observation
C11_Witness ==
    /\ biPc = "think"
    /\ biSteps = 6
    /\ Len(biState.intermediate_steps) = 3
    /\ Head(biState.intermediate_steps[1].observation) =
           "SQL agent returned an error: "
    /\ Head(biState.intermediate_steps[2].observation) = "Error: "
    /\ Head(biState.intermediate_steps[3].observation) =
           "Successfully executed SQL query: "

\* run() has ended, by returning or by raising
BIEnded == biPc \in {"done", "raised"}

\* C12: when the SQL result stored at the end of a turn has status
\* clarification_needed, run() returns a BIResult with status
\* clarification_needed whose final_answer is the clarification question of
\* that result, whatever the router's final answer is.
C12_SqlClarificationPropagates ==
    (BIEnded /\ biState.sql_result.status = "clarification_needed") =>
        /\ biPc = "done"
        /\ biResult.status = "clarification_needed"
        /\ biResult.final_answer = biState.sql_result.clarification_question

\* C13: a turn is reported as success only if a FinalAnswer action with a
\* non-empty answer was executed and stored as the final answer.
C13_SuccessNeedsFinalAnswer ==
    (biPc = "done" /\ biResult.status = "success") =>
        /\ Truthy(biState.final_answer)
        /\ LastStep(biState).action = "FinalAnswer"
        /\ LastStep(biState).observation = <<"Final answer provided.">>

\* final_state.get("final_answer") or ""
FinalAnswerText == IF Truthy(biState.final_answer) THEN biState.final_answer ELSE <<>>

C15_NoStateLeaksBetweenRuns ==
    /\ [][(pc \in {"done", "raised"} /\ pc' = "generate_sql") =>
            /\ state'.current_attempt = 0
            /\ state'.current_reflection_attempt = 0
            /\ state'.history = <<>>
            /\ state'.generation_result = NoGeneration
            /\ state'.review = None
            /\ state'.final_dataframe = None
            /\ state'.generated_sql = <<>>
            /\ state'.error = None
            /\ calls' = <<>>
            /\ result' = NoResult]_vars
    /\ [][(biPc \in {"done", "raised"} /\ biPc' = "think") =>
            /\ biState'.intermediate_steps = <<>>
            /\ biState'.current_step = 1
            /\ biState'.sql_result = NoResult
            /\ biState'.visualization_result = NoVisualization
            /\ biState'.final_answer = None
            /\ biState'.error = None
            /\ biSteps' = 0
            /\ biCalls' = <<>>
            /\ biResult' = NoBIResult]_vars
    /\ [][(visPc \in {"done", "raised"} /\ visPc' = "think") =>
            /\ visState'.agent_scratchpad = <<>>
            /\ visState'.current_step = 1
            /\ visState'.final_visualization = None
            /\ visState'.error = None
            /\ Len(visCalls') = 1
            /\ visResult' = NoVisualization]_vars

\* a second run() of the visualization agent has started
C15_Witness ==
    /\ rerun
    /\ visPc = "think"
    /\ visState.agent_scratchpad = <<>>
    /\ Len(visCalls) = 1

\* the LLM calls of this run of the visualization agent
VisLlmCalls == {i \in DOMAIN visCalls : visCalls[i].op = "generate_structured"}

\* C16: VisualizationAgent.run called with a SQL result whose table is
\* missing or empty returns a VisualizationResult with status error and a
\* non-empty error message, makes no LLM call and builds no scratchpad.
C16_EmptyTableRefused ==
    (visPc # "idle" /\ (visCalls[1].arg = None \/ visCalls[1].arg = <<>>)) =>
        /\ visPc = "done"
        /\ visResult.status = "error"
        /\ Truthy(visResult.error_message)
        /\ visResult.visualization = None
        /\ VisLlmCalls = {}
        /\ visState.agent_scratchpad = <<>>

\* run() has returned for a table without rows, after a run on a table with
\* rows
C16_Witness ==
    /\ rerun
    /\ visPc = "done"
    /\ visCalls = <<[op |-> "run", arg |-> <<>>]>>
    /\ visResult.status = "error"
    /\ visResult.error_message =
           <<"Cannot generate visualization from an empty or missing DataFrame.">>

\* run() of the visualization agent has ended, by returning or by raising,
\* after at least one THINK
VisEndedAfterThink ==
    /\ visPc \in {"done", "raised"}
    /\ visState.agent_scratchpad # <<>>

\* plotly.express renders the toolset on the table
Renderable(toolset) ==
    /\ toolset.tool \in PxFunctions
    /\ PxCall(toolset.tool, toolset.args).raised = ""

\* the toolset the LLM returned in its last call
LastChosenToolset == visCalls[Len(visCalls)].arg

\* C17: when every render attempt fails, the visualization workflow makes at
\* most VisMaxSteps THINK/ACT iterations and run() returns a
\* VisualizationResult with status error and a non-empty error message.
C17_FailedRendersEndInError ==
    /\ Len(visState.agent_scratchpad) <= VisMaxSteps
    /\ (VisEndedAfterThink /\ visState.final_visualization = None
            /\ \A i \in VisLlmCalls : ~Renderable(visCalls[i].arg)) =>
           /\ visPc = "done"
           /\ visResult.status = "error"
           /\ Truthy(visResult.error_message)

PrevBuild == ctxLog[1]

\* the last build_context call
LastBuild == ctxLog[Len(ctxLog)]

\* the last two calls were build_context calls (made directly or by the
\* facade) with the same schema and the same business_context, and the first
\* of them missed the cache and returned
RebuiltAfterMiss ==
    /\ Len(ctxLog) = 2
    /\ ctxLlm
    /\ ~PrevBuild.memoised /\ ~LastBuild.memoised
    /\ PrevBuild.completed /\ ~PrevBuild.hit
    /\ LastBuild.raw_schema = PrevBuild.raw_schema
    /\ LastBuild.business_context = PrevBuild.business_context

\* C20: after a build_context call that missed the cache and returned, the
\* next call with the same schema and business_context makes no LLM call and
\* no sampling call and returns a context equal to the first; the two calls
\* together make one LLM call, one sampling call and one cache write.
C20_SecondBuildIsCacheHit ==
    RebuiltAfterMiss =>
        /\ LastBuild.completed /\ LastBuild.hit
        /\ LastBuild.llm_calls = 0 /\ LastBuild.sample_calls = 0
        /\ LastBuild.result = PrevBuild.result
        /\ PrevBuild.llm_calls + LastBuild.llm_calls = 1
        /\ PrevBuild.sample_calls + LastBuild.sample_calls = 1
        /\ PrevBuild.cache_writes + LastBuild.cache_writes = 1

\* the context of the users schema, with the values of users.status and a
\* business context, was built and then returned again from the cache
C20_Witness ==
    /\ RebuiltAfterMiss
    /\ LastBuild.hit
    /\ LastBuild.raw_schema = SchemaUsers
    /\ LastBuild.business_context = <<"active means paid">>
    /\ Split(LastBuild.result.augmented_schema)[3] =
           <<"\t">> \o Status \o <<" ">> \o Varchar50 \o
           <<",", " -- ", "Possible values: ", "'", "active", "'", ", ",
             "'", "inactive", "'", ", ", "3">>
    /\ LastBuild.result = PrevBuild.result
    /\ PrevBuild.cache_writes = 1

\* the last build_context call missed the cache and its LLM call raised (or
\* returned malformed output), the database being reachable
MissWithFailedPlan ==
    /\ ctxLog # <<>>
    /\ LastBuild.via = "build_context"
    /\ LastBuild.llm_raised
    /\ LastBuild.sample_calls = 1
    /\ LastBuild.completed

\* C21: a build_context call that misses the cache and whose inspection-plan
\* LLM call raises (or returns malformed output) asks the sampler for no
\* column; it does not raise because of the LLM failure: whenever the
\* sampling call that follows returns, the call returns a context for the
\* schema of the call, not augmented, and the cache holds that context under
\* the key of the call.
C21_FailedPlanMeansNoSampling ==
    (ctxLog # <<>> /\ LastBuild.llm_raised) =>
        /\ ~LastBuild.hit
        /\ LastBuild.llm_calls = 1
        /\ LastBuild.columns_to_check = <<>>
        /\ LastBuild.sample_calls = 1 =>
            \/ ~LastBuild.completed /\ LastBuild.cache_writes = 0
            \/ /\ LastBuild.completed
               /\ LastBuild.cache_writes = 1
               /\ LastBuild.result.schema_key = Sha256(LastBuild.raw_schema)
               /\ LastBuild.result.raw_schema = LastBuild.raw_schema
               /\ LastBuild.result.augmented_schema =
                      Strip(LastBuild.raw_schema)
               /\ CacheGet(ctxCache, FullKey(LastBuild.result.schema_key,
                                             LastBuild.business_context))
                      = ModelDumpJson(LastBuild.result)

\* the LLM named users.status in a malformed plan; the context of the users
\* schema was returned without any comment and is in the cache
C21_Witness ==
    /\ MissWithFailedPlan
    /\ LastBuild.raw_schema = SchemaUsers
    /\ LastBuild.columns_to_check = <<>>
    /\ Split(LastBuild.result.augmented_schema)[3] =
           ColumnLine("bare", Status, Varchar50, FALSE)
    /\ LastBuild.cache_writes = 1
    /\ ctxCache # <<>>

\* C22: without an llm_interface every build_context call returns a context
\* whose augmented_schema is the raw schema of the call, unchanged, and whose
\* schema_key is the hash of that schema; it makes no LLM call, no sampling
\* call, no cache read and no cache write, and the cache stays as it was.
C22_NoLlmIsPassthrough ==
    /\ [](( ctxLog # <<>> /\ ~ctxLlm /\ LastBuild.via = "build_context") =>
            /\ LastBuild.completed
            /\ LastBuild.result.raw_schema = LastBuild.raw_schema
            /\ LastBuild.result.augmented_schema = LastBuild.raw_schema
            /\ LastBuild.result.schema_key = Sha256(LastBuild.raw_schema)
            /\ LastBuild.result.business_context = LastBuild.business_context
            /\ LastBuild.llm_calls = 0 /\ LastBuild.sample_calls = 0
            /\ LastBuild.cache_reads = 0 /\ LastBuild.cache_writes = 0)
    /\ [][~ctxLlm => ctxCache' = ctxCache]_vars

\* without an LLM the context of the orders schema, whose DDL ends with an
\* empty line, was returned with that line kept and with a business context
C22_Witness ==
    /\ ~ctxLlm
    /\ ctxLog # <<>>
    /\ LastBuild.via = "build_context"
    /\ LastBuild.completed
    /\ LastBuild.raw_schema = SchemaOrders
    /\ LastBuild.result.augmented_schema = SchemaOrders
    /\ LastBuild.business_context = <<"active means paid">>
    /\ ctxCache = <<>>

\* C23: every context returned by build_context or by the facade's
\* _get_or_build_context carries the schema_key of the schema the database has
\* at the time of that call (so a context built for an older schema is not
\* returned after the schema changed).
C23_ContextIsForCurrentSchema ==
    \A i \in DOMAIN ctxLog :
        ctxLog[i].completed =>
            ctxLog[i].result.schema_key = Sha256(ctxLog[i].raw_schema)

\* the lines given to _synthesize_augmented_schema and the lines it returned
SynthInLines == Split(Strip(callArgs.raw_schema))

SynthOutLines == Split(callResult.value)

SynthDone == callArgs.op = "synthesize" /\ callResult.done

\* line i was returned with something appended
Augmented(i) == SynthOutLines[i] # SynthInLines[i]

\* C24: _synthesize_augmented_schema returns every constraint line as it was,
\* and every column line whose table.column is not a key of the mapping as it
\* was.
C24_OnlyMappedColumnsAugmented ==
    SynthDone =>
        /\ Len(SynthOutLines) = Len(callArgs.truth)
        /\ \A i \in DOMAIN callArgs.truth :
              \/ callArgs.truth[i].kind = "constraint"
              \/ /\ callArgs.truth[i].kind = "column"
                 /\ callArgs.truth[i].key \notin DOMAIN callArgs.fetched_values
              => ~Augmented(i)

\* the entry of the mapping for the column of line i is the marker
HasMarker(i, marker) ==
    /\ callArgs.truth[i].kind = "column"
    /\ callArgs.truth[i].key \in DOMAIN callArgs.fetched_values
    /\ callArgs.fetched_values[callArgs.truth[i].key] =
           [type |-> "str", value |-> <<marker>>]

C26_EveryMappedColumnAugmented ==
    SynthDone =>
        \A i \in DOMAIN callArgs.truth :
            (/\ callArgs.truth[i].kind = "column"
             /\ callArgs.truth[i].key \in DOMAIN callArgs.fetched_values) =>
                SynthOutLines[i] =
                    RStrip(SynthInLines[i]) \o <<" -- ">> \o
                    FormatValues(callArgs.fetched_values[callArgs.truth[i].key])

FetchDone == callArgs.op = "fetch" /\ callResult.done

\* the keys asked in the call
FetchAsked ==
    {FetchKey(callArgs.tables_and_columns[i]) :
        i \in DOMAIN callArgs.tables_and_columns}

\* C27: when the connection opens, fetch_distinct_values returns (it does not
\* raise) a mapping with one entry for each table.column asked and no other;
\* the entry of a column depends on that column alone: the list of its n
\* distinct values when n <= CARDINALITY_LIMIT, the TOO_MANY marker when
\* n > CARDINALITY_LIMIT, the ERROR marker when its table does not exist or
\* its statement fails.
C27_OneEntryPerColumn ==
    FetchDone =>
        /\ callResult.raised # "" <=> callArgs.connect_raises
        /\ callResult.raised = "" =>
            /\ DOMAIN callResult.value = FetchAsked
            /\ \A k \in FetchAsked :
                  LET entry == callResult.value[k]
                      n == callArgs.db[k]
                  IN  IF k \notin DOMAIN callArgs.db \/ n = -1
                      THEN entry = [type |-> "str",
                                    value |-> <<"ERROR_FETCHING">>]
                      ELSE IF n > CardinalityLimit
                      THEN entry = [type |-> "str",
                                    value |-> <<"TOO_MANY_VALUES">>]
                      ELSE /\ entry.type = "list"
                           /\ Len(entry.value) = n
                           /\ Len(entry.value) <= CardinalityLimit
                           /\ \A i, j \in DOMAIN entry.value :
                                 i # j => entry.value[i] # entry.value[j]

\* a call asked a column of a missing table first, then a column of 26
\* distinct values and a column of 25: it returned ERROR, TOO_MANY and the
\* list of the 25 values
C27_Witness ==
    /\ FetchDone
    /\ callResult.raised = ""
    /\ callArgs.tables_and_columns =
           <<[table |-> Orders, column |-> State],
             [table |-> Users, column |-> Id],
             [table |-> Users, column |-> Status]>>
    /\ callArgs.db[Users \o <<".">> \o Id] = CardinalityLimit + 1
    /\ callArgs.db[Users \o <<".">> \o Status] = CardinalityLimit
    /\ callResult.value[Orders \o <<".">> \o State].value = <<"ERROR_FETCHING">>
    /\ callResult.value[Users \o <<".">> \o Id].value = <<"TOO_MANY_VALUES">>
    /\ Len(callResult.value[Users \o <<".">> \o Status].value) = CardinalityLimit

ValidateDone == callArgs.op = "validate_sql" /\ callResult.done

\* the input is one SELECT statement
IsSingleSelect ==
    /\ Len(callArgs.statements) = 1
    /\ GetType(callArgs.statements[1]) = KwSelect

\* C28: validate_sql returns without raising only for an input made of one
\* SELECT statement; for any other input (no statement, a statement that is
\* not a SELECT, more than one statement) it raises ValueError and nothing
\* was sent to the database.
C28_OnlySingleSelectAccepted ==
    ValidateDone =>
        /\ callResult.raised = "" => IsSingleSelect
        /\ ~IsSingleSelect =>
              callResult.raised = "ValueError" /\ callResult.value = <<>>

\* the value of the last set() of a key, None when it was never set
LastSet(key) == CacheGet(cacheLast.value, key)

\* get(key) is what the last set(key, v) stored
GetIsLastSet(key) ==
    /\ callArgs.provider = "memory" =>
           MemGet(cacheMem, key) = Return(LastSet(key))
    /\ callArgs.provider = "file" /\ key \notin cacheLast.failed =>
           FsGet(cacheFiles, key) = Return(LastSet(key))

\* C29: for the in-memory and the file system provider, after any sequence
\* of set() calls get(k) returns the value of the last set(k, v), and None
\* when k was never set (for the file system provider: when the last write
\* of k met no IOError); a set() of one key leaves what get() returns for
\* every other key unchanged.
C29_GetReturnsLastSet ==
    /\ [](/\ \A key \in CacheKeys : GetIsLastSet(key)
          /\ callArgs.op = "get" /\ callArgs.key \notin cacheLast.failed =>
                 callResult = Return(LastSet(callArgs.key)))
    /\ [][callArgs'.op = "set" =>
             \A key \in CacheKeys \ {callArgs'.key} :
                 /\ MemGet(cacheMem', key) = MemGet(cacheMem, key)
                 /\ FsGet(cacheFiles', key) = FsGet(cacheFiles, key)]_vars

\* a get() of the file system provider returned a text with a backslash and
\* a line break while the other key holds another text
C29_Witness ==
    /\ callArgs.op = "get"
    /\ callArgs.provider = "file"
    /\ callArgs.key = <<"k">>
    /\ cacheLast.failed = {}
    /\ callResult = Return(<<"a", "\\", "b", "\n", "c">>)
    /\ LastSet(<<"k", "1">>) = <<"{", "\"", "a", "\"", ":", " ", "1", "}">>

\* C30: FileSystemCacheProvider.get returns None without raising when the
\* file of the key is missing, is not valid JSON, is a JSON object without
\* the content field, or is valid JSON that is not an object.
C30_GetNeverRaisesOnCorruptEntry ==
    callArgs.op = "get" /\ FileKind(cacheFiles, callArgs.key) # "entry" =>
        callResult = Return(None)

\* C31: should_retry_node returns "retry" when the latest generation has
\* status success, an execution error is stored and current_attempt is
\* under max_attempts, and "end" in every other state.
C31_RetryIffFailedWithAttemptsLeft ==
    (callArgs.op = "should_retry_node" /\ callResult.done) =>
        LET s == callArgs.state
        IN  callResult =
                Return(IF /\ s.generation_result.status = "success"
                          /\ s.error # None
                          /\ s.current_attempt < s.max_attempts
                       THEN <<"retry">> ELSE <<"end">>)

\* should_retry_node answered "retry" after a failed second attempt of three
C31_Witness ==
    /\ callArgs.op = "should_retry_node"
    /\ callResult = Return(<<"retry">>)
    /\ callArgs.state.current_attempt = 2
    /\ callArgs.state.max_attempts = 3

\* C32: decide_after_reflection_node returns "regenerate" when a suggestion
\* is pending (review is not None) and current_reflection_attempt is under
\* max_reflection_attempts, and "execute" in every other state: a pending
\* suggestion at or past the cap goes to execution.
C32_RegenerateIffSuggestionUnderCap ==
    (callArgs.op = "decide_after_reflection_node" /\ callResult.done) =>
        LET s == callArgs.state
        IN  callResult =
                Return(IF /\ s.review # None
                          /\ s.current_reflection_attempt <
                                 s.max_reflection_attempts
                       THEN <<"regenerate">> ELSE <<"execute">>)

\* decide_after_reflection_node answered "execute" with a suggestion pending
\* at the cap
C32_Witness ==
    /\ callArgs.op = "decide_after_reflection_node"
    /\ callResult = Return(<<"execute">>)
    /\ callArgs.state.review = <<"use a JOIN">>
    /\ callArgs.state.current_reflection_attempt = 2
    /\ callArgs.state.max_reflection_attempts = 2

IsGenerate(i) == calls[i].op = "generate"

\* the REFLECT calls made since the GENERATE before call i
ReflectsBefore(i) ==
    {k \in 1..(i - 1) :
        /\ calls[k].op = "reflect"
        /\ \A j \in (k + 1)..(i - 1) : ~IsGenerate(j)}

\* what the k-th call, a REFLECT, stored as the pending suggestion
StoredBy(k) ==
    ReflectionNode(variant, state,
                   [decision |-> calls[k].out,
                    suggestions |-> calls[k].detail]).review

\* the number of "REVIEWER SUGGESTIONS" entries of a prompt
SuggestionsIn(prompt) ==
    Cardinality({n \in DOMAIN prompt : prompt[n] = "REVIEWER SUGGESTIONS:\n"})

\* C33: the prompt of a GENERATE step that follows a REFLECT step which
\* stored a suggestion (a non-empty text) ends with the entry of that
\* suggestion, after the history log, and holds no other suggestion; the
\* prompt of a GENERATE step with no such REFLECT since the GENERATE before
\* holds no suggestion; right after every GENERATE step the pending
\* suggestion is None.
C33_SuggestionUsedOnceThenCleared ==
    /\ \A i \in DOMAIN calls : IsGenerate(i) =>
          /\ \A k \in ReflectsBefore(i) : Truthy(StoredBy(k)) =>
                /\ EndsWith(calls[i].arg,
                            <<"\n", "REVIEWER SUGGESTIONS:\n">> \o StoredBy(k))
                /\ SuggestionsIn(calls[i].arg) = 1
          /\ (\A k \in ReflectsBefore(i) : ~Truthy(StoredBy(k))) =>
                SuggestionsIn(calls[i].arg) = 0
    /\ (calls # <<>> /\ IsGenerate(Len(calls))) => state.review = None

\* a suggestion stored at the reflection cap reached the GENERATE that
\* followed the failed execution, and was cleared by it
C33_Witness ==
    /\ Len(calls) = 4
    /\ calls[2].op = "reflect"
    /\ calls[3].op = "execute"
    /\ IsGenerate(4)
    /\ EndsWith(calls[4].arg, <<"REVIEWER SUGGESTIONS:\n", "use a JOIN">>)
    /\ state.review = None

\* the number of REFLECT steps of the run so far
ReflectCalls == Cardinality({i \in DOMAIN calls : calls[i].op = "reflect"})

\* C34: in a run of the Reflection variant the REFLECT step runs at most
\* max_reflection_attempts times.
C34_ReflectWithinCap ==
    IsReflection(variant) => ReflectCalls <= state.max_reflection_attempts

\* a begins b
BeginsWith(b, a) ==
    /\ Len(a) <= Len(b)
    /\ SubSeq(b, 1, Len(a)) = a

\* this step made one more call, of that kind
StepCalls(op) ==
    /\ Len(calls') = Len(calls) + 1
    /\ calls'[Len(calls')].op = op

\* this step is the start of a run
StepIsRun == pc \in {"idle", "done", "raised"} /\ pc' = "generate_sql"

\* the number of GENERATE steps in a log of calls
Generates(log) == Cardinality({i \in DOMAIN log : log[i].op = "generate"})

\* the record of attempt n
IsAttemptRecord(entry, n) ==
    BeginsWith(entry, <<"ATTEMPT ", ToString(n), " - Status: ">>)

\* C35: within a run the history log only grows, by one entry at a time and
\* at its end. A GENERATE step appends one record, numbered with the number
\* of GENERATE steps made so far in the run, and its prompt begins with the
\* whole log it found, in order. An EXECUTE step whose failure the node
\* catches appends one EXECUTION FAILED line, right after the record of the
\* attempt that failed. Every other step leaves the log as it was.
C35_HistoryIsAppendOnly ==
    [][~StepIsRun =>
         /\ BeginsWith(state'.history, state.history)
         /\ StepCalls("generate") =>
               /\ Len(state'.history) = Len(state.history) + 1
               /\ IsAttemptRecord(state'.history[Len(state'.history)],
                                  Generates(calls'))
               /\ BeginsWith(calls'[Len(calls')].arg, Join(state.history))
         /\ (StepCalls("execute") /\ calls'[Len(calls')].out = "RuntimeError") =>
               /\ Len(state'.history) = Len(state.history) + 1
               /\ BeginsWith(state'.history[Len(state'.history)],
                             <<"EXECUTION FAILED: ">>)
               /\ IsAttemptRecord(state.history[Len(state.history)],
                                  state.current_attempt)
         /\ ~(\/ StepCalls("generate")
              \/ StepCalls("execute") /\ calls'[Len(calls')].out = "RuntimeError") =>
               state'.history = state.history]_vars

\* two attempts failed at execution: records 1 and 2, each followed by its
\* EXECUTION FAILED line, and the second prompt was the log of the first
C35_Witness ==
    /\ Len(state.history) = 4
    /\ IsAttemptRecord(state.history[1], 1)
    /\ BeginsWith(state.history[2], <<"EXECUTION FAILED: ">>)
    /\ IsAttemptRecord(state.history[3], 2)
    /\ BeginsWith(state.history[4], <<"EXECUTION FAILED: ">>)
    /\ Len(calls) = 4
    /\ calls[3].arg = Join(SubSeq(state.history, 1, 2))

\* a toolset whose rendering fails: empty, a chart type that plotly.express
\* does not have, or an argument naming a column the table does not have
FailingToolset(toolset) ==
    \/ toolset = EmptyToolset
    \/ toolset.tool \notin PxFunctions
    \/ BadColumn \in toolset.args

\* C36: the ACT step of the visualization workflow never ends by raising;
\* after an ACT on a toolset whose rendering fails the last scratchpad entry
\* holds an error observation, the error field holds that error and no chart
\* is stored.
C36_ActNeverPropagates ==
    /\ visPc # "raised"
    /\ (/\ visPc \in {"think", "done"}
        /\ visState.agent_scratchpad # <<>>
        /\ FailingToolset(VisLastStep(visState).toolset)) =>
           /\ BeginsWith(VisLastStep(visState).observation,
                         <<"Error executing ">>)
           /\ visState.error = VisLastStep(visState).observation
           /\ visState.final_visualization = None

\* the last call of the run, when it made one
LastCallIs(op, out) ==
    /\ calls # <<>>
    /\ calls[Len(calls)].op = op
    /\ calls[Len(calls)].out = out

\* C37: a result that reports a failure met after SQL was generated carries
\* a non-empty message and that SQL: the SQLResult of a run that ended on a
\* failed execution, the SQLPlan of a run that ended on a failed validation,
\* and the BIResult of status error of a turn whose stored SQL result has
\* status error.
C37_ErrorsCarryMessageAndSql ==
    /\ (pc = "done" /\ LastCallIs("execute", "RuntimeError")) =>
           /\ result.status = "error"
           /\ Truthy(result.error_message)
           /\ result.sql_query # None
           /\ Strip(result.sql_query) = calls[Len(calls)].arg
    /\ (pc = "done" /\ LastCallIs("validate", "ValueError")) =>
           /\ result.status = "error"
           /\ Truthy(result.error_message)
           /\ result.sql_query = calls[Len(calls)].arg
    /\ (/\ biPc = "done"
        /\ biResult.status = "error"
        /\ biState.sql_result.status = "error") =>
           /\ Truthy(biResult.error_message)
           /\ biResult.sql_query = biState.sql_result.sql_query

\* ---------------------------------------------------------------------
\* The tool node of the BI graph alone, entered after the earlier steps of a
\* turn; here the SQL agent run may also raise
\* ---------------------------------------------------------------------

\* the router response of the given action (with its argument)
ResponseFor(action) ==
    CHOOSE response \in RouterResponses :
        response.action = action /\ Truthy(response.args)

\* a turn after one more think step and SQL agent step that returned r
AfterSqlStep(h, r) ==
    [state |-> ToolSqlAgent(ThinkNode(h.state, ResponseFor("sql_agent")), r),
     calls |-> Append(h.calls, [op |-> "sql_agent",
                                stored |-> h.state.sql_result.status,
                                out |-> r.status]),
     steps |-> h.steps + 2]

\* a turn after one more think step and visualization step that returned v
AfterVisStep(h, v) ==
    [state |-> ToolVisualization(
                   ThinkNode(h.state, ResponseFor("visualization_agent")), v),
     calls |-> Append(h.calls, [op |-> "vis_agent",
                                stored |-> h.state.sql_result.status,
                                out |-> v.status]),
     steps |-> h.steps + 2]

\* the turns the tool node is entered in: a new turn, or one with up to two
\* earlier tool steps
ToolHistories ==
    LET new == [state |-> BIPrepareInitialState, calls |-> <<>>, steps |-> 0]
        one == {AfterSqlStep(new, r) : r \in SqlAgentResults}
        two == {AfterSqlStep(h, r) : h \in one, r \in SqlAgentResults}
               \cup {AfterVisStep(h, v) :
                         h \in {g \in one : CanVisualize(g.state)},
                         v \in VisualizationResults}
    IN  {new} \cup one \cup two

\* the graph at the tool node, after a think step of the router
InitTool ==
    /\ SQLIdle
    /\ VisIdle
    /\ rerun = FALSE
    /\ CtxIdle
    /\ FnIdle
    /\ CacheIdle
    /\ biResult = NoBIResult
    /\ biPc = "execute_tool"
    /\ \E h \in ToolHistories, response \in RouterResponses :
           /\ biState = ThinkNode(h.state, response)
           /\ biCalls = h.calls
           /\ biSteps = h.steps + 1

NextTool ==
    \/ \E r \in SqlAgentResults : BIToolSqlAgent(r)
    \/ BIToolSqlAgentRaised
    \/ \E v \in VisualizationResults : BIToolVisualization(v)
    \/ BIToolFinalAnswer
    \/ BIToolError

SpecTool == InitTool /\ [][NextTool]_vars

\* ---------------------------------------------------------------------
\* build_context in successive processes that share a persistent cache
\* ---------------------------------------------------------------------

\* the seeds a process salts its str hashes with: the one of PYTHONHASHSEED,
\* or one drawn when the interpreter starts
HashSeeds == {"seed 0", "seed 1", "seed 2"}

\* hash(None) in a process: a constant, or derived from the address of None
NoneHashes == {"hash(None) a", "hash(None) b"}

Processes == [seed : HashSeeds, none : NoneHashes]

\* hash(business_context) in the given process
PyHashIn(process, business_context) ==
    IF business_context = None THEN <<"hash", process.none>>
    ELSE <<"hash", process.seed>> \o business_context

\* f"{schema_key}-{hash(business_context)}" in the given process
FullKeyIn(process, schema_key, business_context) ==
    <<schema_key, "-", PyHashIn(process, business_context)>>

\* a DBContextAnalyzer with an llm_interface, on an empty persistent cache
InitRestart ==
    /\ SQLIdle
    /\ BIIdle
    /\ VisIdle
    /\ rerun = FALSE
    /\ ctxLlm = TRUE
    /\ ctxSchema \in Schemas
    /\ ctxCache = <<>>
    /\ ctxLog = <<>>
    /\ facContext = NoContext
    /\ facLastBc = None
    /\ FnIdle
    /\ CacheIdle

\* a process is started and calls build_context(business_context) once, the
\* LLM planning no column: the key it computes, the lookup, and on a miss the
\* entry it writes to the cache the processes share
RestartAndBuild(process, business_context) ==
    LET schema_key == Sha256(ctxSchema)
        full_key == FullKeyIn(process, schema_key, business_context)
        cached_context_str == CacheGet(ctxCache, full_key)
        context == EnrichedDatabaseContext(ctxSchema,
                       SynthesizeAugmentedSchema(ctxSchema, <<>>),
                       schema_key, business_context)
        hit == IsCacheHit(cached_context_str)
    IN  /\ ctxLog' = Logged(ctxLog,
               [process |-> process, raw_schema |-> ctxSchema,
                business_context |-> business_context,
                full_key |-> full_key, hit |-> hit])
        /\ ctxCache' = IF hit THEN ctxCache
                       ELSE CacheSet(ctxCache, full_key, ModelDumpJson(context))
        /\ UNCHANGED <<ctxLlm, ctxSchema, facContext, facLastBc>>
        /\ UNCHANGED notCtx

NextRestart ==
    \E process \in Processes, business_context \in BusinessContexts :
        RestartAndBuild(process, business_context)

SpecRestart == InitRestart /\ [][NextRestart]_vars

\* ---------------------------------------------------------------------
\* _synthesize_augmented_schema alone, on the values a text column can hold
\* ---------------------------------------------------------------------

\* the values of a column: a word, a number, and a text that is a line break
\* (the shortest text holding one)
SampledValues ==
    {[type |-> "str", text |-> "active"], [type |-> "int", text |-> "3"],
     [type |-> "str", text |-> "\n"]}

\* the lists of up to two distinct values
SampledLists ==
    {<<>>} \cup {<<v>> : v \in SampledValues}
    \cup {<<p[1], p[2]>> : p \in {q \in SampledValues \X SampledValues :
                                      q[1] # q[2]}}

\* the entry of the column users.status: none, or a list of its values
SampledEntries ==
    {[type |-> "absent", value |-> <<>>]}
    \cup {[type |-> "list", value |-> l] : l \in SampledLists}

PrimaryKeyText == <<"P", "R", "I", "M", "A", "R", "Y", " ", "K", "E", "Y", " ", "(", "i", "d", ")">>

\* the arguments of one call: a DDL of one or two tables and the mapping
SampledArgs ==
    {[op |-> "synthesize",
      raw_schema |-> <<"\n">> \o
          Join(SynthDdlLines(ts, cs, Status, PrimaryKeyText, t)) \o
          <<"\n", "\n">>,
      fetched_values |-> SynthFetched(Status, PrimaryKeyText, e, FALSE),
      truth |-> SynthDdlTruth(Status, t)] :
        ts \in QuoteStyles, cs \in QuoteStyles, t \in SecondTables,
        e \in SampledEntries}

InitSampled ==
    /\ SQLIdle
    /\ BIIdle
    /\ VisIdle
    /\ rerun = FALSE
    /\ CtxIdle
    /\ CacheIdle
    /\ callArgs \in SampledArgs
    /\ callResult = NoReturn

SpecSampled == InitSampled /\ [][NextSynth]_vars

\* the tool node has run: one more node of the graph, entered at execute_tool
ToolStep == biPc = "execute_tool" /\ biSteps' = biSteps + 1

\* the tool step is an invocation of the SQL agent that returned
SqlAgentReturned ==
    /\ Len(biCalls') = Len(biCalls) + 1
    /\ biCalls'[Len(biCalls')].op = "sql_agent"

\* C38: a tool step in which the SQL agent returned stores the returned
\* result, of whatever status (the one the step's observation was built
\* from); every other tool step, a raised SQL agent run included, leaves the
\* stored SQL result as it was.
C38_SqlResultIsLastReturned ==
    [][ToolStep =>
          IF SqlAgentReturned
          THEN \E r \in SqlAgentResults :
                   /\ r.status = biCalls'[Len(biCalls')].out
                   /\ LastStep(biState').observation = SqlObservation(r)
                   /\ biState'.sql_result = r
          ELSE biState'.sql_result = biState.sql_result]_vars

\* a successful result was replaced by an error result, and the SQL agent
\* step after it raised and left the error result stored
C38_Witness ==
    /\ Len(biCalls) = 2
    /\ biCalls[1].op = "sql_agent" /\ biCalls[1].out = "success"
    /\ biCalls[2].op = "sql_agent" /\ biCalls[2].out = "error"
    /\ biCalls[2].stored = "success"
    /\ LastStep(biState).action = "sql_agent"
    /\ LastStep(biState).observation = <<"Error: ">> \o SqlAgentException
    /\ biState.sql_result.status = "error"

\* C39: two builds with the same schema text and the same business_context
\* compute the same composite key, in whichever processes they run, so the
\* second of two such builds in a row is a cache hit.
C39_KeyIsStableAcrossRestarts ==
    (/\ Len(ctxLog) = 2
     /\ "full_key" \in DOMAIN ctxLog[1]
     /\ ctxLog[1].raw_schema = ctxLog[2].raw_schema
     /\ ctxLog[1].business_context = ctxLog[2].business_context) =>
        /\ ctxLog[2].full_key = ctxLog[1].full_key
        /\ ctxLog[2].hit

\* line i of the output is line i of the input with its trailing whitespace
\* removed and the comment of one entry of the mapping after it
IsCommented(i) ==
    \E key \in DOMAIN callArgs.fetched_values :
        SynthOutLines[i] =
            RStrip(SynthInLines[i]) \o <<" -- ">> \o
            FormatValues(callArgs.fetched_values[key])

\* C40: the output of _synthesize_augmented_schema has as many lines as the
\* stripped input; each of its lines is the input line itself, or the input
\* line without trailing whitespace followed by one comment; with an empty
\* mapping the output is the stripped input.
C40_OnlyAppendsTrailingComments ==
    SynthDone =>
        /\ Len(SynthOutLines) = Len(SynthInLines)
        /\ \A i \in DOMAIN SynthInLines \cap DOMAIN SynthOutLines :
               SynthOutLines[i] = SynthInLines[i] \/ IsCommented(i)
        /\ DOMAIN callArgs.fetched_values = {} =>
               callResult.value = Strip(callArgs.raw_schema)

====
